---- MODULE Spec2Model ----
(***************************************************************************)
(* VantaEther: the in-process capture store (CaptureManager), the capture  *)
(* HTTP server's handlers (VantaServer) and the CLI entry point (main).    *)
(*                                                                         *)
(* Threads.  Flask runs with threaded=True, so every request is served on  *)
(* its own handler thread: Handlers serve POST /snipe, POST /clear and     *)
(* GET /status; Streams are the long-lived GET /stream (SSE) handlers.     *)
(* The manual-mode engine's main thread is the waiter Engine.  Engine and  *)
(* Streams all wait on the one threading.Event of the CaptureManager.      *)
(***************************************************************************)
EXTENDS Integers, Sequences, FiniteSets, TLC

(***************************************************************************)
(* Bounds of the model.                                                    *)
(***************************************************************************)
NumHandlers == 2
NumUrls == 2
NumStreams == 1
MaxClock == 1
MaxInsert == 2200
RetentionLead == 3
MaxTail == 3
MaxFiles == 3
MaxFormats == 3
MaxEntries == 3

(***************************************************************************)
(* Program constants.                                                      *)
(***************************************************************************)
MAX_ITEMS == 2000

VIDEO_TYPES == {"video", "manifest_dash", "manifest_hls", "stream_api", "license"}

(***************************************************************************)
(* Thread identities.                                                      *)
(***************************************************************************)
Handlers == 1..NumHandlers
NoThread == NumHandlers + 1
Streams == 1..NumStreams
Engine == NumStreams + 1
Waiters == Streams \cup {Engine}

URLs == 1..NumUrls
TypeInputs == {"video", "manifest_hls", "sub", "image"}

VARIABLES
  videos,        \* CaptureManager._videos
  subs,          \* CaptureManager._subs
  lock,          \* CaptureManager._lock: the handler holding it, or NoThread
  event,         \* CaptureManager._event: the flag of the threading.Event
  woken,         \* waiters blocked in Event.wait that a set() has notified
  clock,         \* datetime.now()
  hpc,           \* handler thread: position
  hdata,         \* handler thread: request.json of the current/last request
  hitem,         \* handler thread: the CapturedItem built by add_item
  hadded,        \* handler thread: add_item's local `added`
  hret,          \* handler thread: add_item's return value ("none" if not called)
  hresp,         \* handler thread: the HTTP response of the last request
  wpc,           \* waiter thread: position
  wflag,         \* waiter thread: wait_for_item's local `flag`
  enable_console,\* VantaEngine.enable_console
  snapshot,      \* engine: the snapshot read in the wait loop
  sevent,        \* stream handler: the last event yielded
  wadds,         \* history: waiters whose last wait_for_item returned True and
                 \* for which an add_item has succeeded since that return
  nextUrl,       \* retention scenario: the next fresh URL of the driver
  mpc,           \* main(): position
  args,          \* main(): parsed command line
  fx,            \* main(): side effects performed so far
  exit_status,   \* main(): the process exit status once it has ended
  rpc,           \* main thread: position in the job it runs (engine.run,
                 \* download_stream, the merger, a file helper)
  job,           \* main thread: the arguments, locals and result of that job
  files          \* the download directory: path |-> [size, data]

storeVars == <<videos, subs, lock, event, woken, clock>>
handlerVars == <<hpc, hdata, hitem, hadded, hret, hresp>>
waiterVars == <<wpc, wflag, enable_console, snapshot, sevent, wadds>>
jobVars == <<rpc, job, files>>
mainVars == <<mpc, args, fx, exit_status, jobVars>>
vars == <<storeVars, handlerVars, waiterVars, nextUrl, mainVars>>

(***************************************************************************)
(* Request bodies.  request.json is None or a JSON object, modelled as the *)
(* function from the keys present to their values.                         *)
(***************************************************************************)
NoBody == [kind |-> "None", obj |-> <<>>]
Body(o) == [kind |-> "object", obj |-> o]
EmptyObj == <<>>
UrlOnly(u) == [k \in {"url"} |-> u]
TypeOnly(t) == [k \in {"type"} |-> t]
TitleOnly == [k \in {"title"} |-> "t"]
Full(u, t) == [k \in {"url", "type"} |-> IF k = "url" THEN u ELSE t]

Objects ==
  {EmptyObj, TitleOnly}
    \cup {UrlOnly(u) : u \in URLs}
    \cup {TypeOnly(t) : t \in TypeInputs}
    \cup {Full(u, t) : u \in URLs, t \in TypeInputs}

Bodies == {NoBody} \cup {Body(o) : o \in Objects}

\* Variant of the truthiness test that tests `data is None` only.
FalsyIsNone(data) == data.kind = "None"

\* `not data`: None and the empty object are falsy.
Falsy(data) == data.kind = "None" \/ DOMAIN data.obj = {}

\* data.get(key, default)
Get(o, key, default) == IF key \in DOMAIN o THEN o[key] ELSE default

\* `"url" not in data or "type" not in data`
MissingKeys(o) == "url" \notin DOMAIN o \/ "type" \notin DOMAIN o

NoItem == [url |-> 0, media_type |-> "none", source |-> "none", timestamp |-> 0]

\* CapturedItem(...): the timestamp is read when the item is constructed.
CapturedItem(o, now) ==
  [url |-> o["url"], media_type |-> o["type"],
   source |-> Get(o, "source", "Unknown"), timestamp |-> now]

\* any(v.url == item.url for v in target_list)
HasUrl(list, u) == \E i \in 1..Len(list) : list[i].url = u

PruneCount == MAX_ITEMS \div 10

\* Variant of the pruning that drops the newest items instead of the oldest.
PruneListNewest(list) ==
  IF Len(list) > MAX_ITEMS
  THEN SubSeq(list, 1, Len(list) - PruneCount)
  ELSE list

\* _prune_list: del target_list[:int(MAX_ITEMS * 0.1)] when over the maximum.
PruneList(list) ==
  IF Len(list) > MAX_ITEMS
  THEN SubSeq(list, PruneCount + 1, Len(list))
  ELSE list

\* get_status()
Status == [video_count |-> Len(videos), sub_count |-> Len(subs)]

NoStatus == [video_count |-> -1, sub_count |-> -1]
NoResp == [route |-> "none", code |-> 0, status |-> "none", body |-> NoStatus]
Resp(route, code, status) ==
  [route |-> route, code |-> code, status |-> status, body |-> NoStatus]
NoSnapshot == [videos |-> <<>>, subs |-> <<>>]

TypeOK ==
  /\ lock \in Handlers \cup {NoThread}
  /\ event \in BOOLEAN
  /\ woken \subseteq Waiters
  /\ clock \in 0..MaxClock
  /\ \A h \in Handlers : hpc[h] \in {"idle", "acquire", "prune", "set"}
  /\ \A w \in Waiters : wpc[w] \in {"wait", "blocked", "clear", "ret", "sleep"}

(***************************************************************************)
(* Initial state: a freshly constructed CaptureManager, idle handler       *)
(* threads, the engine and the stream handlers about to wait.              *)
(***************************************************************************)
StoreInit ==
  /\ videos = <<>>
  /\ subs = <<>>
  /\ lock = NoThread
  /\ event = FALSE
  /\ woken = {}
  /\ clock = 0

HandlerInit ==
  /\ hpc = [h \in Handlers |-> "idle"]
  /\ hdata = [h \in Handlers |-> NoBody]
  /\ hitem = [h \in Handlers |-> NoItem]
  /\ hadded = [h \in Handlers |-> FALSE]
  /\ hret = [h \in Handlers |-> "none"]
  /\ hresp = [h \in Handlers |-> NoResp]

WaiterInit ==
  /\ wpc = [w \in Waiters |-> "wait"]
  /\ wflag = [w \in Waiters |-> FALSE]
  /\ snapshot = NoSnapshot
  /\ sevent = [s \in Streams |-> NoStatus]
  /\ wadds = {}

(***************************************************************************)
(* POST /snipe and CaptureManager.add_item.                                *)
(***************************************************************************)

\* Variant of the response that ignores add_item's return value.
SnipeResponseAlwaysReceived(added) == Resp("/snipe", 200, "received")

\* snipe: the response chosen from add_item's return value.
SnipeResponse(added) ==
  IF added
  THEN Resp("/snipe", 200, "received")
  ELSE Resp("/snipe", 200, "duplicate_or_invalid")

\* snipe: `if not data: return jsonify({"status": "error", ...}), 400`
SnipeNoData(h, data) ==
  /\ hresp' = [hresp EXCEPT ![h] = Resp("/snipe", 400, "error")]
  /\ hret' = [hret EXCEPT ![h] = "none"]
  /\ UNCHANGED <<hpc, storeVars>>

\* Variant of the rejection that signals the event before validating.
AddItemInvalidSignals(h, data) ==
  /\ hret' = [hret EXCEPT ![h] = "False"]
  /\ hresp' = [hresp EXCEPT ![h] = SnipeResponse(FALSE)]
  /\ event' = TRUE
  /\ woken' = woken \cup {w \in Waiters : wpc[w] = "blocked"}
  /\ UNCHANGED <<hpc, videos, subs, lock, clock>>

\* add_item: `if "url" not in data or "type" not in data: return False`,
\* answered by snipe with duplicate_or_invalid.
AddItemInvalid(h, data) ==
  /\ hret' = [hret EXCEPT ![h] = "False"]
  /\ hresp' = [hresp EXCEPT ![h] = SnipeResponse(FALSE)]
  /\ UNCHANGED <<hpc, storeVars>>

\* snipe up to the point where add_item has built its CapturedItem and is
\* about to take the lock.
SnipeCall(h, data) ==
  /\ hpc[h] = "idle"
  /\ hdata' = [hdata EXCEPT ![h] = data]
  /\ hadded' = [hadded EXCEPT ![h] = FALSE]
  /\ IF Falsy(data)
     THEN /\ SnipeNoData(h, data)
          /\ hitem' = [hitem EXCEPT ![h] = NoItem]
     ELSE IF MissingKeys(data.obj)
     THEN /\ AddItemInvalid(h, data)
          /\ hitem' = [hitem EXCEPT ![h] = NoItem]
     ELSE /\ hitem' = [hitem EXCEPT ![h] = CapturedItem(data.obj, clock)]
          /\ hpc' = [hpc EXCEPT ![h] = "acquire"]
          /\ hret' = [hret EXCEPT ![h] = "none"]
          /\ hresp' = [hresp EXCEPT ![h] = NoResp]
          /\ UNCHANGED storeVars

Snipe(h, data) ==
  /\ SnipeCall(h, data)
  /\ UNCHANGED <<waiterVars, nextUrl, mainVars>>

\* The group an item of this type goes to: "videos", "subs" or "none".
GroupOf(t) ==
  IF t \in VIDEO_TYPES THEN "videos" ELSE IF t = "sub" THEN "subs" ELSE "none"

\* Variant of the duplicate test that compares URL and type.
IsNewByUrlAndType(list, item) ==
  ~\E i \in 1..Len(list) :
     list[i].url = item.url /\ list[i].media_type = item.media_type

\* `not any(x.url == item.url for x in group)`
IsNew(list, item) == ~HasUrl(list, item.url)

\* add_item: `with self._lock:` up to and including the append.
AddItemAppend(h) ==
  /\ hpc[h] = "acquire"
  /\ lock = NoThread
  /\ lock' = h
  /\ LET item == hitem[h]
         g == GroupOf(item.media_type)
     IN  IF g = "videos" /\ IsNew(videos, item)
         THEN /\ videos' = Append(videos, item)
              /\ subs' = subs
              /\ hadded' = [hadded EXCEPT ![h] = TRUE]
              /\ hpc' = [hpc EXCEPT ![h] = "prune"]
         ELSE IF g = "subs" /\ IsNew(subs, item)
         THEN /\ subs' = Append(subs, item)
              /\ videos' = videos
              /\ hadded' = [hadded EXCEPT ![h] = TRUE]
              /\ hpc' = [hpc EXCEPT ![h] = "prune"]
         ELSE /\ UNCHANGED <<videos, subs, hadded>>
              /\ hpc' = [hpc EXCEPT ![h] = "set"]
  /\ UNCHANGED <<event, woken, clock, hdata, hitem, hret, hresp>>
  /\ UNCHANGED <<waiterVars, nextUrl, mainVars>>

\* add_item: self._prune_list(group), still under the lock.
AddItemPrune(h) ==
  /\ hpc[h] = "prune"
  /\ lock = h
  /\ IF GroupOf(hitem[h].media_type) = "videos"
     THEN videos' = PruneList(videos) /\ subs' = subs
     ELSE subs' = PruneList(subs) /\ videos' = videos
  /\ hpc' = [hpc EXCEPT ![h] = "set"]
  /\ UNCHANGED <<lock, event, woken, clock, hdata, hitem, hadded, hret, hresp>>
  /\ UNCHANGED <<waiterVars, nextUrl, mainVars>>

\* The waiters whose last wait_for_item call has returned True.
ReturnedTrue ==
  {w \in Waiters : wflag[w] /\ wpc[w] \in {"ret", "sleep", "wait", "blocked"}}

\* threading.Event.set(): raise the flag and notify every blocked waiter.
EventSet ==
  /\ event' = TRUE
  /\ woken' = woken \cup {w \in Waiters : wpc[w] = "blocked"}

\* add_item: `if added: self._event.set(); return True`, else `return False`;
\* the lock is released on the way out and snipe answers.
AddItemSet(h) ==
  /\ hpc[h] = "set"
  /\ lock = h
  /\ IF hadded[h] THEN EventSet ELSE UNCHANGED <<event, woken>>
  /\ lock' = NoThread
  /\ hret' = [hret EXCEPT ![h] = IF hadded[h] THEN "True" ELSE "False"]
  /\ hresp' = [hresp EXCEPT ![h] = SnipeResponse(hadded[h])]
  /\ hitem' = [hitem EXCEPT ![h] = NoItem]
  /\ hpc' = [hpc EXCEPT ![h] = "idle"]
  /\ wadds' = IF hadded[h] THEN wadds \cup ReturnedTrue ELSE wadds
  /\ UNCHANGED <<videos, subs, clock, hdata, hadded>>
  /\ UNCHANGED <<wpc, wflag, enable_console, snapshot, sevent, nextUrl, mainVars>>

\* POST /clear -> clear_pool(): both lists and the event, under the lock.
ClearList(h) ==
  /\ hpc[h] = "idle"
  /\ lock = NoThread
  /\ videos' = <<>>
  /\ subs' = <<>>
  /\ event' = FALSE
  /\ hdata' = [hdata EXCEPT ![h] = NoBody]
  /\ hadded' = [hadded EXCEPT ![h] = FALSE]
  /\ hret' = [hret EXCEPT ![h] = "none"]
  /\ hresp' = [hresp EXCEPT ![h] = Resp("/clear", 200, "cleared")]
  /\ UNCHANGED <<lock, woken, clock, hpc, hitem>>
  /\ UNCHANGED <<waiterVars, nextUrl, mainVars>>

\* GET /status -> get_status(): the two lengths, read under the lock.
StatusRequest(h) ==
  /\ hpc[h] = "idle"
  /\ lock = NoThread
  /\ hdata' = [hdata EXCEPT ![h] = NoBody]
  /\ hadded' = [hadded EXCEPT ![h] = FALSE]
  /\ hret' = [hret EXCEPT ![h] = "none"]
  /\ hresp' = [hresp EXCEPT ![h] =
                 [route |-> "/status", code |-> 200, status |-> "ok", body |-> Status]]
  /\ UNCHANGED <<storeVars, hpc, hitem>>
  /\ UNCHANGED <<waiterVars, nextUrl, mainVars>>

\* The handler thread ends once its response is sent; its locals are gone.
Finish(h) ==
  /\ hpc[h] = "idle"
  /\ hresp[h] # NoResp
  /\ hdata' = [hdata EXCEPT ![h] = NoBody]
  /\ hadded' = [hadded EXCEPT ![h] = FALSE]
  /\ hret' = [hret EXCEPT ![h] = "none"]
  /\ hresp' = [hresp EXCEPT ![h] = NoResp]
  /\ UNCHANGED <<storeVars, hpc, hitem>>
  /\ UNCHANGED <<waiterVars, nextUrl, mainVars>>

\* datetime.now() advances.
Tick ==
  /\ clock < MaxClock
  /\ clock' = clock + 1
  /\ UNCHANGED <<videos, subs, lock, event, woken>>
  /\ UNCHANGED <<handlerVars, waiterVars, nextUrl, mainVars>>

(***************************************************************************)
(* CaptureManager.wait_for_item, as run by the engine and by every stream  *)
(* handler: flag = self._event.wait(timeout); if flag: self._event.clear() *)
(* Event.wait returns True at once when the flag is set; otherwise the     *)
(* caller blocks and returns True if a set() notified it before the        *)
(* timeout, False when the timeout elapsed first.                          *)
(***************************************************************************)
WaitEnter(w) ==
  /\ wpc[w] = "wait"
  /\ IF event
     THEN /\ wflag' = [wflag EXCEPT ![w] = TRUE]
          /\ wpc' = [wpc EXCEPT ![w] = "clear"]
     ELSE /\ wflag' = wflag
          /\ wpc' = [wpc EXCEPT ![w] = "blocked"]
  /\ UNCHANGED <<storeVars, handlerVars, enable_console, snapshot, sevent>>
  /\ UNCHANGED <<wadds, nextUrl, mainVars>>

WaitNotified(w) ==
  /\ wpc[w] = "blocked"
  /\ w \in woken
  /\ woken' = woken \ {w}
  /\ wflag' = [wflag EXCEPT ![w] = TRUE]
  /\ wpc' = [wpc EXCEPT ![w] = "clear"]
  /\ UNCHANGED <<videos, subs, lock, event, clock>>
  /\ UNCHANGED <<handlerVars, enable_console, snapshot, sevent, wadds, nextUrl, mainVars>>

WaitTimeout(w) ==
  /\ wpc[w] = "blocked"
  /\ w \notin woken
  /\ wflag' = [wflag EXCEPT ![w] = FALSE]
  /\ wpc' = [wpc EXCEPT ![w] = "ret"]
  /\ UNCHANGED <<storeVars, handlerVars, enable_console, snapshot, sevent>>
  /\ UNCHANGED <<nextUrl, mainVars>>
  /\ wadds' = wadds \ {w}

\* `if flag: self._event.clear()`, then `return flag`.
WaitClear(w) ==
  /\ wpc[w] = "clear"
  /\ event' = FALSE
  /\ wpc' = [wpc EXCEPT ![w] = "ret"]
  /\ UNCHANGED <<videos, subs, lock, woken, clock>>
  /\ UNCHANGED <<handlerVars, wflag, enable_console, snapshot, sevent>>
  /\ UNCHANGED <<nextUrl, mainVars>>
  /\ wadds' = wadds \ {w}

\* wait_for_item: `return flag` to a caller that does nothing with the store
\* and calls wait_for_item again.
WaitReturn(w) ==
  /\ wpc[w] = "ret"
  /\ wpc' = [wpc EXCEPT ![w] = "wait"]
  /\ UNCHANGED <<storeVars, handlerVars, wflag, enable_console, snapshot, sevent>>
  /\ UNCHANGED <<wadds, nextUrl, mainVars>>

\* CapturedItem.to_dict: the same fields; isoformat() of the timestamp is
\* injective and keeps the order of instants, and is kept as the instant.
ToDict(v) ==
  [url |-> v.url, media_type |-> v.media_type, source |-> v.source,
   timestamp |-> v.timestamp]

\* get_snapshot(): copies of both lists, made under the lock.
GetSnapshot ==
  [videos |-> [i \in 1..Len(videos) |-> ToDict(videos[i])],
   subs |-> [i \in 1..Len(subs) |-> ToDict(subs[i])]]

\* The engine's wait loop after wait_for_item(timeout=1.0) returned:
\* `if has_new_data or self.enable_console: snapshot = get_snapshot()`.
EngineRead ==
  /\ wpc[Engine] = "ret"
  /\ IF wflag[Engine] \/ enable_console
     THEN /\ lock = NoThread
          /\ snapshot' = GetSnapshot
     ELSE snapshot' = snapshot
  /\ wpc' = [wpc EXCEPT ![Engine] = "wait"]
  /\ UNCHANGED <<storeVars, handlerVars, wflag, enable_console, sevent>>
  /\ UNCHANGED <<wadds, nextUrl, mainVars>>

\* Variant of the stream round that emits only when the wait was notified.
StreamEmitOnChange(s) ==
  /\ wpc[s] = "ret"
  /\ lock = NoThread
  /\ IF wflag[s]
     THEN /\ sevent' = [sevent EXCEPT ![s] = Status]
          /\ wpc' = [wpc EXCEPT ![s] = "sleep"]
     ELSE /\ sevent' = sevent
          /\ wpc' = [wpc EXCEPT ![s] = "wait"]
  /\ UNCHANGED <<storeVars, handlerVars, wflag, enable_console, snapshot, wadds>>
  /\ UNCHANGED <<nextUrl, mainVars>>

\* GET /stream, event_stream(): after wait_for_item(timeout=20.0) returned,
\* data = get_status(); yield the event.
StreamEmit(s) ==
  /\ wpc[s] = "ret"
  /\ lock = NoThread
  /\ sevent' = [sevent EXCEPT ![s] = Status]
  /\ wpc' = [wpc EXCEPT ![s] = "sleep"]
  /\ UNCHANGED <<storeVars, handlerVars, wflag, enable_console, snapshot>>
  /\ UNCHANGED <<wadds, nextUrl, mainVars>>

\* event_stream(): time.sleep(0.1), then the next round of `while True`.
StreamSleep(s) ==
  /\ wpc[s] = "sleep"
  /\ wpc' = [wpc EXCEPT ![s] = "wait"]
  /\ UNCHANGED <<storeVars, handlerVars, wflag, enable_console, snapshot, sevent>>
  /\ UNCHANGED <<wadds, nextUrl, mainVars>>

(***************************************************************************)
(* Parts of the state a specification does not use stay at these values.   *)
(***************************************************************************)
JobIdle ==
  /\ rpc = "off"
  /\ job = <<>>
  /\ files = <<>>

MainIdle ==
  /\ mpc = "off"
  /\ args = <<>>
  /\ fx = {}
  /\ exit_status = <<>>
  /\ JobIdle

(***************************************************************************)
(* Spec: the capture store under concurrent /snipe and /clear handlers.    *)
(***************************************************************************)
Init ==
  /\ StoreInit
  /\ HandlerInit
  /\ WaiterInit
  /\ enable_console = FALSE
  /\ nextUrl = 1
  /\ MainIdle

Next ==
  \/ \E h \in Handlers : \E data \in Bodies : Snipe(h, data)
  \/ \E h \in Handlers : AddItemAppend(h)
  \/ \E h \in Handlers : AddItemPrune(h)
  \/ \E h \in Handlers : AddItemSet(h)
  \/ \E h \in Handlers : ClearList(h)

Spec == Init /\ [][Next]_vars

(***************************************************************************)
(* SpecDup: concurrent add_item calls with well-formed payloads, clears,   *)
(* and a stream handler consuming the notification.                        *)
(***************************************************************************)
DupTypes == {"video", "manifest_hls", "sub"}
DupBodies == {Body(Full(u, t)) : u \in URLs, t \in DupTypes}

NextDup ==
  \/ \E h \in Handlers : \E data \in DupBodies : Snipe(h, data)
  \/ \E h \in Handlers : AddItemAppend(h)
  \/ \E h \in Handlers : AddItemPrune(h)
  \/ \E h \in Handlers : AddItemSet(h)
  \/ \E h \in Handlers : ClearList(h)
  \/ \E s \in Streams : WaitEnter(s)
  \/ \E s \in Streams : WaitNotified(s)
  \/ \E s \in Streams : WaitTimeout(s)
  \/ \E s \in Streams : WaitClear(s)
  \/ \E s \in Streams : WaitReturn(s)

SpecDup == Init /\ [][NextDup]_vars

(***************************************************************************)
(* SpecRetention: one client posts MaxInsert captures with fresh URLs, one *)
(* after the other, all of one type, while other handler threads serve     *)
(* GET /status.  A new capture is posted once the earlier responses have   *)
(* been delivered.  The run starts with the empty store.  The store as it  *)
(* is after the first MAX_ITEMS - RetentionLead of these captures is a     *)
(* second initial state: it is a state of the run from the empty store, so *)
(* it adds no state and only shortens the way to the first pruning.        *)
(***************************************************************************)
PrefilledCount == MAX_ITEMS - RetentionLead

InitPrefilled ==
  /\ videos = [i \in 1..PrefilledCount |-> CapturedItem(Full(i, "video"), 0)]
  /\ subs = <<>>
  /\ lock = NoThread
  /\ event = TRUE
  /\ woken = {}
  /\ clock = 0
  /\ HandlerInit
  /\ WaiterInit
  /\ enable_console = FALSE
  /\ nextUrl = PrefilledCount + 1
  /\ MainIdle

InitRetention == Init \/ InitPrefilled

Driver == CHOOSE h \in Handlers : \A g \in Handlers : h <= g

RetentionTypes ==
  IF videos # <<>> THEN {"video"}
  ELSE IF subs # <<>> THEN {"sub"}
  ELSE {"video", "sub"}

RetentionInsert ==
  /\ nextUrl <= MaxInsert
  /\ \A h \in Handlers : hresp[h] = NoResp
  /\ \E t \in RetentionTypes : SnipeCall(Driver, Body(Full(nextUrl, t)))
  /\ nextUrl' = nextUrl + 1
  /\ UNCHANGED <<waiterVars, mainVars>>

NextRetention ==
  \/ RetentionInsert
  \/ AddItemAppend(Driver)
  \/ AddItemPrune(Driver)
  \/ AddItemSet(Driver)
  \/ \E h \in Handlers \ {Driver} : StatusRequest(h)
  \/ \E h \in Handlers : Finish(h)

SpecRetention == InitRetention /\ [][NextRetention]_vars

(***************************************************************************)
(* SpecWait: one client posting video captures, the engine's wait loop     *)
(* with remote-log surfacing off, and the stream handlers, all on the one  *)
(* event.  SpecWaitFair adds the scheduling: a thread that can take a step *)
(* eventually takes it (a timeout elapses, a notified thread runs), and a  *)
(* thread that keeps asking for the lock gets it.  Requests arrive or not  *)
(* as the client pleases.                                                  *)
(***************************************************************************)
WaitBodies == {Body(Full(u, "video")) : u \in URLs}

NextWait ==
  \/ \E data \in WaitBodies : Snipe(Driver, data)
  \/ AddItemAppend(Driver)
  \/ AddItemPrune(Driver)
  \/ AddItemSet(Driver)
  \/ \E w \in Waiters : WaitEnter(w)
  \/ \E w \in Waiters : WaitNotified(w)
  \/ \E w \in Waiters : WaitTimeout(w)
  \/ \E w \in Waiters : WaitClear(w)
  \/ EngineRead
  \/ \E s \in Streams : StreamEmit(s)
  \/ \E s \in Streams : StreamSleep(s)

SpecWait == Init /\ [][NextWait]_vars

WaitFairness ==
  /\ SF_vars(AddItemAppend(Driver))
  /\ WF_vars(AddItemPrune(Driver))
  /\ WF_vars(AddItemSet(Driver))
  /\ \A w \in Waiters :
       /\ WF_vars(WaitEnter(w))
       /\ WF_vars(WaitNotified(w))
       /\ WF_vars(WaitTimeout(w))
       /\ WF_vars(WaitClear(w))
  /\ SF_vars(EngineRead)
  /\ \A s \in Streams : SF_vars(StreamEmit(s)) /\ WF_vars(StreamSleep(s))

SpecWaitFair == Init /\ [][NextWait]_vars /\ WaitFairness

(***************************************************************************)
(* SpecTime: two /snipe handlers posting video captures while the clock    *)
(* advances, and the engine's wait loop reading snapshots.  The timestamp  *)
(* of an item is taken when the handler builds it, before it asks for the  *)
(* lock; its position is decided by the order of the appends.              *)
(***************************************************************************)
NextTime ==
  \/ \E h \in Handlers : \E data \in WaitBodies : Snipe(h, data)
  \/ \E h \in Handlers : AddItemAppend(h)
  \/ \E h \in Handlers : AddItemPrune(h)
  \/ \E h \in Handlers : AddItemSet(h)
  \/ Tick
  \/ WaitEnter(Engine)
  \/ WaitNotified(Engine)
  \/ WaitTimeout(Engine)
  \/ WaitClear(Engine)
  \/ EngineRead

SpecTime == Init /\ [][NextTime]_vars

(***************************************************************************)
(* main(): the command line, the disclaimer gate and the routing to the    *)
(* native downloader or the manual-mode engine.  fx collects what the run  *)
(* has done so far.                                                        *)
(***************************************************************************)
NoValue == <<>>
Given(v) == <<v>>

\* Python truth of an optional argument: None, 0 and "" are false.
TruthyInt(v) == v # NoValue /\ v[1] # 0
TruthyStr(v) == v # NoValue /\ v[1] # ""

\* A URL is the sequence of its parts; the empty sequence is no URL.
UrlInputs == {<<>>, <<"https://", "tube">>, <<"https://", "site">>, <<"tube">>}
PortInputs == {NoValue, Given(0), Given(8080)}
HostInputs == {NoValue, Given("0.0.0.0")}

ArgInputs ==
  [url : UrlInputs, audio : BOOLEAN, port : PortInputs, host : HostInputs,
   console : BOOLEAN]

\* url.startswith("http")
StartsWithHttp(url) == Len(url) > 0 /\ url[1] = "https://"

\* `if not url.startswith("http"): url = "https://" + url`
Sanitize(url) == IF StartsWithHttp(url) THEN url ELSE <<"https://">> \o url

\* is_natively_supported: some extractor other than the generic one suits the URL.
IsNativelySupported(url) == \E i \in 1..Len(url) : url[i] = "tube"

\* config.configure_server(host, port): records the overrides.
ConfigureServer(a) == {"configure_server"}

\* DownloadManager(): builds the downloader, which resolves the download
\* directory.
DownloadManagerInit == {"downloader_constructed", "dir_resolved"}

\* VantaEngine.__init__: builds the engine and, inside it, the downloader.
VantaEngineInit == {"engine_constructed"} \cup DownloadManagerInit

MainInit ==
  /\ mpc = "parsed"
  /\ args \in ArgInputs
  /\ fx = {}
  /\ exit_status = NoValue
  /\ JobIdle

\* `if args.port or args.host: config.configure_server(...)`
MainConfigure ==
  /\ mpc = "parsed"
  /\ fx' = IF TruthyInt(args.port) \/ TruthyStr(args.host)
           THEN fx \cup ConfigureServer(args) ELSE fx
  /\ mpc' = "gate"
  /\ UNCHANGED <<storeVars, handlerVars, waiterVars, nextUrl, args, exit_status, jobVars>>

\* Variant of the gate that goes on whatever the operator answers.
MainGateIgnoresAnswer(answer) ==
  /\ mpc = "gate"
  /\ fx' = fx \cup {"disclaimer_shown"} \cup (IF answer THEN {"accepted"} ELSE {})
  /\ mpc' = "banner"
  /\ UNCHANGED <<storeVars, handlerVars, waiterVars, nextUrl, args, exit_status, jobVars>>

\* `if not show_legal_disclaimer(): sys.exit(0)`, then render_banner.
MainGate(answer) ==
  /\ mpc = "gate"
  /\ fx' = fx \cup {"disclaimer_shown"} \cup (IF answer THEN {"accepted"} ELSE {})
  /\ IF answer
     THEN mpc' = "banner" /\ exit_status' = exit_status
     ELSE mpc' = "exited" /\ exit_status' = Given(0)
  /\ UNCHANGED <<storeVars, handlerVars, waiterVars, nextUrl, args, jobVars>>

\* `if not url and not args.audio:` the start menu; choice "2" goes straight
\* to the engine.
MainMenu(choice) ==
  /\ mpc = "banner"
  /\ IF args.url = <<>> /\ ~args.audio
     THEN mpc' = IF choice = "2" THEN "engine" ELSE "url"
     ELSE mpc' = "url"
  /\ UNCHANGED <<storeVars, handlerVars, waiterVars, nextUrl, args, fx, exit_status, jobVars>>

\* `if not url: url = Prompt.ask(...)`; `if not url: return`; the prefix;
\* is_natively_supported(url) runs the extractor scan.
MainUrl(typed) ==
  /\ mpc = "url"
  /\ LET url == IF args.url = <<>> THEN typed ELSE args.url IN
       IF url = <<>>
       THEN /\ mpc' = "returned"
            /\ exit_status' = Given(0)
            /\ UNCHANGED <<args, fx>>
       ELSE /\ args' = [args EXCEPT !.url = Sanitize(url)]
            /\ fx' = fx \cup {"extractor_scan"}
            /\ mpc' = IF IsNativelySupported(Sanitize(url)) THEN "native" ELSE "engine"
            /\ exit_status' = exit_status
  /\ UNCHANGED <<storeVars, handlerVars, waiterVars, nextUrl, jobVars>>

\* `downloader = DownloadManager(); downloader.native_download(url, ...)`
MainNative ==
  /\ mpc = "native"
  /\ fx' = fx \cup DownloadManagerInit \cup {"network_call"}
  /\ mpc' = "returned"
  /\ exit_status' = Given(0)
  /\ UNCHANGED <<storeVars, handlerVars, waiterVars, nextUrl, args, jobVars>>

\* `engine = VantaEngine(enable_console=args.console)`
MainEngine ==
  /\ mpc = "engine"
  /\ fx' = fx \cup VantaEngineInit
  /\ enable_console' = args.console
  /\ mpc' = "run"
  /\ UNCHANGED <<storeVars, handlerVars, wpc, wflag, snapshot, sevent, wadds>>
  /\ UNCHANGED <<nextUrl, args, exit_status, jobVars>>

\* engine.run() -> wait_for_target_interactive(): the capture server is
\* started on a daemon thread and the engine begins to wait.
MainEngineRun ==
  /\ mpc = "run"
  /\ fx' = fx \cup {"server_started"}
  /\ mpc' = "serving"
  /\ UNCHANGED <<storeVars, handlerVars, waiterVars, nextUrl, args, exit_status, jobVars>>

InitMain ==
  /\ StoreInit
  /\ HandlerInit
  /\ WaiterInit
  /\ enable_console = FALSE
  /\ nextUrl = 1
  /\ MainInit

NextMain ==
  \/ MainConfigure
  \/ \E answer \in BOOLEAN : MainGate(answer)
  \/ \E choice \in {"1", "2"} : MainMenu(choice)
  \/ \E typed \in UrlInputs : MainUrl(typed)
  \/ MainNative
  \/ MainEngine
  \/ MainEngineRun

SpecMain == InitMain /\ [][NextMain]_vars

(***************************************************************************)
(* FileManager.sanitize_filename (Downloader._sanitize_filename is the     *)
(* same expression).  A string is the sequence of its characters.          *)
(***************************************************************************)
MAX_NAME_LEN == 50

\* The character class of re.sub(r'[<>:"/\\|?*]', "", name).
IllegalChars == {"<", ">", ":", "\"", "/", "\\", "|", "?", "*"}

Whitespace == {" ", "\t", "\n"}

RemoveIllegal(name) == SelectSeq(name, LAMBDA c : c \notin IllegalChars)

\* str.strip(): drop leading and trailing whitespace.
Strip(s) ==
  LET keep == {i \in 1..Len(s) : s[i] \notin Whitespace} IN
    IF keep = {} THEN <<>>
    ELSE LET first == CHOOSE i \in keep : \A j \in keep : i <= j
             last == CHOOSE i \in keep : \A j \in keep : j <= i
         IN SubSeq(s, first, last)

\* cleaned[:50]
Truncate(s) == IF Len(s) <= MAX_NAME_LEN THEN s ELSE SubSeq(s, 1, MAX_NAME_LEN)

\* sanitize_filename: `cleaned = re.sub(...).strip(); return cleaned[:50]`
SanitizeFilename(name) == Truncate(Strip(RemoveIllegal(name)))

\* Input names: a short head, a run of letters long enough to bring the
\* cut into play, and a short tail.
NameChars == {"a", " ", "/", "*"}
ShortStrings == UNION {[1..n -> NameChars] : n \in 0..MaxTail}
Letters(n) == [i \in 1..n |-> "a"]
PadLengths == {0} \cup ((MAX_NAME_LEN - MaxTail)..MAX_NAME_LEN)
NameInputs ==
  {h \o Letters(n) \o t : h \in {<<>>, <<" ">>, <<"/">>}, n \in PadLengths, t \in ShortStrings}

InitSanitize ==
  /\ StoreInit
  /\ HandlerInit
  /\ WaiterInit
  /\ enable_console = FALSE
  /\ nextUrl = 1
  /\ mpc = "off" /\ args = <<>> /\ fx = {} /\ exit_status = <<>>
  /\ rpc = "sanitize"
  /\ job \in {[name |-> n] : n \in NameInputs}
  /\ files = <<>>

\* A call sanitize_filename(name).
SanitizeCall ==
  /\ rpc = "sanitize"
  /\ job' = [name |-> job.name, cleaned |-> SanitizeFilename(job.name)]
  /\ rpc' = "sanitized"
  /\ UNCHANGED <<storeVars, handlerVars, waiterVars, nextUrl, mpc, args, fx, exit_status, files>>

\* A second call, on the result of the first.
SanitizeAgain ==
  /\ rpc = "sanitized"
  /\ job' = [name |-> job.name, cleaned |-> job.cleaned,
             again |-> SanitizeFilename(job.cleaned)]
  /\ rpc' = "sanitized_twice"
  /\ UNCHANGED <<storeVars, handlerVars, waiterVars, nextUrl, mpc, args, fx, exit_status, files>>

NextSanitize == SanitizeCall \/ SanitizeAgain

SpecSanitize == InitSanitize /\ [][NextSanitize]_vars

(***************************************************************************)
(* FileManager.detect_files (Downloader._detect_files has the same         *)
(* filters).  A path in the download directory is the sequence of the      *)
(* parts of its name between the dots: <<"base", "audio", "m4a">> is       *)
(* base.audio.m4a.  `files` maps each existing path to its size and data.  *)
(***************************************************************************)
MIN_SIZE == 1024

NoPath == <<>>
Base == "base"

\* download_path.glob(f"{filename_base}.*")
Candidates(dir, base) == {p \in DOMAIN dir : Len(p) >= 2 /\ p[1] = base}

\* download_path.glob(f"{filename_base}.audio.*")
AudioCandidates(dir, base) ==
  {p \in DOMAIN dir : Len(p) >= 3 /\ p[1] = base /\ p[2] = "audio"}

\* Path.suffix without its dot.
Suffix(p) == p[Len(p)]

ExcludedSuffixes == {"json", "srt", "vtt", "part", "ytdl"}

\* ".part" in f.name
HasPart(p) == \E i \in 2..Len(p) : p[i] = "part"

\* ".audio." in f.name
HasAudioInfix(p) == \E i \in 2..(Len(p) - 1) : p[i] = "audio"

\* The filter shared by the three list comprehensions.
Qualifies(dir, p) ==
  /\ Suffix(p) \notin ExcludedSuffixes
  /\ ~HasPart(p)
  /\ dir[p].size > MIN_SIZE

\* Variant of the video filter that forgets the explicit audio files.
VideoCandidatesWithAudio(dir, base) ==
  {p \in Candidates(dir, base) : Qualifies(dir, p)}

VideoCandidates(dir, base) ==
  {p \in Candidates(dir, base) : Qualifies(dir, p) /\ ~HasAudioInfix(p)}

ValidAudio(dir, base) == {p \in AudioCandidates(dir, base) : Qualifies(dir, p)}

ValidOthers(dir, base, found) ==
  {p \in Candidates(dir, base) : p # found /\ Qualifies(dir, p)}

\* max(list, key=size): one of the largest; which one, when sizes tie, is
\* the order in which glob listed them.
Largest(dir, S) == {p \in S : \A q \in S : dir[q].size <= dir[p].size}

\* The results detect_files can return: (found_file, actual_ext, orphan_audio_file).
FoundFiles(dir, base) ==
  IF VideoCandidates(dir, base) = {} THEN {NoPath}
  ELSE Largest(dir, VideoCandidates(dir, base))

OrphanFiles(dir, base, found) ==
  IF ValidAudio(dir, base) # {} THEN Largest(dir, ValidAudio(dir, base))
  ELSE IF found # NoPath /\ ValidOthers(dir, base, found) # {}
       THEN Largest(dir, ValidOthers(dir, base, found))
       ELSE {NoPath}

DetectFiles(dir, base) ==
  UNION {{[found |-> f, ext |-> IF f = NoPath THEN "" ELSE Suffix(f), orphan |-> o] :
            o \in OrphanFiles(dir, base, f)} : f \in FoundFiles(dir, base)}

\* Directories: a few files out of the names a download can leave behind.
PathInputs ==
  {<<"base", "mp4">>, <<"base", "mkv">>, <<"base", "m4a">>, <<"base", "json">>,
   <<"base", "mp4", "part">>, <<"base", "part", "mp4">>,
   <<"base", "audio", "m4a">>, <<"base", "audio", "webm">>,
   <<"base", "audio", "m4a", "part">>, <<"other", "mp4">>, <<"base_final", "mp4">>}
SizeInputs == {MIN_SIZE, MIN_SIZE + 1, 4 * MIN_SIZE}
SmallDirs == {S \in SUBSET PathInputs : Cardinality(S) <= MaxFiles}
DirInputs == UNION {[S -> [size : SizeInputs, data : {"d"}]] : S \in SmallDirs}

InitDetect ==
  /\ StoreInit
  /\ HandlerInit
  /\ WaiterInit
  /\ enable_console = FALSE
  /\ nextUrl = 1
  /\ mpc = "off" /\ args = <<>> /\ fx = {} /\ exit_status = <<>>
  /\ rpc = "detect"
  /\ job = <<>>
  /\ files \in DirInputs

\* A call detect_files("base").
DetectCall ==
  /\ rpc = "detect"
  /\ job' \in DetectFiles(files, Base)
  /\ rpc' = "detected"
  /\ UNCHANGED <<storeVars, handlerVars, waiterVars, nextUrl, mpc, args, fx, exit_status, files>>

NextDetect == DetectCall

SpecDetect == InitDetect /\ [][NextDetect]_vars

(***************************************************************************)
(* StreamMerger.process_external_sub_sync(url, fname, mode, headers,       *)
(* video_ext, audio_file), one step per phase and per cleanup call.        *)
(* fname is "base"; the subtitle URL is given by its kind ("vtt", "srt")   *)
(* or is "none".  What the network and ffmpeg do is chosen freely: the     *)
(* subtitle request succeeds or fails, ffmpeg is installed or not, exits   *)
(* with 0 or not, and leaves a non-empty, an empty or no working output.   *)
(***************************************************************************)
Data(size, data) == [size |-> size, data |-> data]

Exists(dir, p) == p # NoPath /\ p \in DOMAIN dir

\* Path.unlink() / _safe_unlink: the directory without p.
Unlink(dir, p) == [q \in DOMAIN dir \ {p} |-> dir[q]]

\* open(p, "wb").write(...) or a tool writing p: p is created or replaced.
WriteFile(dir, p, d) == [q \in DOMAIN dir \cup {p} |-> IF q = p THEN d ELSE dir[q]]

\* Path.rename(target): target is replaced by the file at p.
Rename(dir, p, target) ==
  [q \in (DOMAIN dir \ {p}) \cup {target} |-> IF q = target THEN dir[p] ELSE dir[q]]

\* `if audio_file: ... if ".part" in audio_file.name or not audio_file.exists():
\*  audio_file = None`
MergeStart ==
  /\ rpc = "m_start"
  /\ job' = [job EXCEPT !.audio_file =
               IF job.audio_file # NoPath
                  /\ (HasPart(job.audio_file) \/ ~Exists(files, job.audio_file))
               THEN NoPath ELSE job.audio_file]
  /\ rpc' = "m_sub"
  /\ UNCHANGED <<storeVars, handlerVars, waiterVars, nextUrl, mpc, args, fx, exit_status, files>>

\* 1. Subtitle download phase.  `ok` is whether requests.get and
\* raise_for_status succeed, `converted` whether the ffmpeg vtt -> srt run
\* wrote its output (check=False: its exit status is ignored).
MergeSubtitle(ok, converted) ==
  /\ rpc = "m_sub"
  /\ IF job.url = "none" \/ ~ok
     THEN UNCHANGED <<job, files>>
     ELSE LET raw == <<"base_ext", job.url>>
              srt == <<"base", "srt">>
              written == WriteFile(files, raw, Data(MIN_SIZE, "sub"))
          IN IF job.url # "vtt"
             THEN /\ files' = written
                  /\ job' = [job EXCEPT !.final_sub = raw, !.fetched = TRUE]
             ELSE IF ~job.ffmpeg
             THEN \* subprocess.run raises; `except Exception` keeps final_sub
                  /\ files' = written
                  /\ job' = [job EXCEPT !.final_sub = raw, !.fetched = TRUE]
             ELSE /\ files' = Unlink(IF converted
                                     THEN WriteFile(written, srt, Data(MIN_SIZE, "sub"))
                                     ELSE written, raw)
                  /\ job' = [job EXCEPT !.final_sub = srt, !.fetched = TRUE]
  /\ rpc' = "m_discover"
  /\ UNCHANGED <<storeVars, handlerVars, waiterVars, nextUrl, mpc, args, fx, exit_status>>

\* The fallback discovery: glob(f"{stem_name}.*") without metadata, partial
\* and explicit audio files, and without audio_file.
MergeValid(dir, audio_file) ==
  {p \in Candidates(dir, Base) :
     /\ Suffix(p) \notin ExcludedSuffixes
     /\ ~HasPart(p)
     /\ ~HasAudioInfix(p)
     /\ p # audio_file}

\* 2. File discovery phase, and `if not video_file.exists(): return`.
MergeDiscover ==
  /\ rpc = "m_discover"
  /\ LET exact == <<"base", job.video_ext>>
         valid == MergeValid(files, job.audio_file)
     IN \E v \in (IF Exists(files, exact) THEN {exact}
                  ELSE IF valid # {} THEN Largest(files, valid) ELSE {exact}) :
          /\ job' = [job EXCEPT
                       !.video_file = v,
                       !.output_file = <<"base_final", IF job.mode = "embed_mkv" THEN "mkv" ELSE "mp4">>,
                       !.final_path = <<"base", IF job.mode = "embed_mkv" THEN "mkv" ELSE "mp4">>]
          /\ rpc' = IF Exists(files, v) THEN "m_run" ELSE "m_abort"
  /\ UNCHANGED <<storeVars, handlerVars, waiterVars, nextUrl, mpc, args, fx, exit_status, files>>

\* The inputs of the ffmpeg command line exist.
MergeInputsExist ==
  /\ Exists(files, job.video_file)
  /\ job.audio_file # NoPath => Exists(files, job.audio_file)
  /\ job.final_sub # NoPath => Exists(files, job.final_sub)

\* 3. The inputs (`-i`) and the stream mappings (`-map`) of the command, in
\* the order they are appended; a mapping names its input by index.
NoCommand == [inputs |-> <<>>, maps |-> <<>>]

Map(input, stream) == [input |-> input, stream |-> stream]

\* Variant that always maps the subtitle from the third input.
MergeCommandSubFromThird(video_file, audio_file, final_sub) ==
  [inputs |-> <<video_file>>
                \o (IF audio_file # NoPath THEN <<audio_file>> ELSE <<>>)
                \o (IF final_sub # NoPath THEN <<final_sub>> ELSE <<>>),
   maps |-> <<Map(0, "v")>>
              \o (IF audio_file # NoPath THEN <<Map(1, "a?")>> ELSE <<Map(0, "a?")>>)
              \o (IF final_sub # NoPath THEN <<Map(2, "0")>> ELSE <<>>)]

MergeCommand(video_file, audio_file, final_sub) ==
  [inputs |-> <<video_file>>
                \o (IF audio_file # NoPath THEN <<audio_file>> ELSE <<>>)
                \o (IF final_sub # NoPath THEN <<final_sub>> ELSE <<>>),
   maps |-> <<Map(0, "v")>>
              \o (IF audio_file # NoPath THEN <<Map(1, "a?")>> ELSE <<Map(0, "a?")>>)
              \o (IF final_sub # NoPath
                    THEN <<Map(IF audio_file # NoPath THEN 2 ELSE 1, "0")>>
                    ELSE <<>>)]

\* 3./4. The ffmpeg run (`-y`: the working output is overwritten) and the
\* test `return_code == 0 and output_file.exists() and st_size > 0`.
\* Popen raises when ffmpeg is not installed; `except Exception` reports it.
MergeRun(rc, out) ==
  /\ rpc = "m_run"
  /\ rc = 0 => (MergeInputsExist /\ job.ffmpeg /\ out # "none")
  /\ IF ~job.ffmpeg
     THEN /\ rpc' = "m_error"
          /\ job' = [job EXCEPT !.cmd = MergeCommand(job.video_file, job.audio_file,
                                                     job.final_sub)]
          /\ UNCHANGED files
     ELSE /\ files' = IF out = "none" THEN files
                      ELSE WriteFile(files, job.output_file,
                                     Data(IF out = "empty" THEN 0 ELSE 2 * MIN_SIZE, "merged"))
          /\ job' = [job EXCEPT !.rc = rc,
                                !.cmd = MergeCommand(job.video_file, job.audio_file,
                                                     job.final_sub)]
          /\ rpc' = IF rc = 0 /\ Exists(files', job.output_file)
                       /\ files'[job.output_file].size > 0
                    THEN "m_unlink_video" ELSE "m_failed"
  /\ UNCHANGED <<storeVars, handlerVars, waiterVars, nextUrl, mpc, args, fx, exit_status>>

\* _safe_unlink(path): nothing for None or a path that does not exist.
SafeUnlink(dir, p) == IF Exists(dir, p) THEN Unlink(dir, p) ELSE dir

\* 5. Cleanup phase, call by call.
MergeUnlinkVideo ==
  /\ rpc = "m_unlink_video"
  /\ files' = SafeUnlink(files, job.video_file)
  /\ rpc' = "m_unlink_audio"
  /\ UNCHANGED <<storeVars, handlerVars, waiterVars, nextUrl, mpc, args, fx, exit_status, job>>

MergeUnlinkAudio ==
  /\ rpc = "m_unlink_audio"
  /\ files' = SafeUnlink(files, job.audio_file)
  /\ rpc' = "m_unlink_final"
  /\ UNCHANGED <<storeVars, handlerVars, waiterVars, nextUrl, mpc, args, fx, exit_status, job>>

MergeUnlinkFinal ==
  /\ rpc = "m_unlink_final"
  /\ files' = SafeUnlink(files, job.final_path)
  /\ rpc' = "m_rename"
  /\ UNCHANGED <<storeVars, handlerVars, waiterVars, nextUrl, mpc, args, fx, exit_status, job>>

\* Variant of the rename step that leaves the working output where it is.
MergeKeepWorkingOutput ==
  /\ rpc = "m_rename"
  /\ files' = WriteFile(files, job.final_path, files[job.output_file])
  /\ rpc' = "m_unlink_sub"
  /\ UNCHANGED <<storeVars, handlerVars, waiterVars, nextUrl, mpc, args, fx, exit_status, job>>

MergeRename ==
  /\ rpc = "m_rename"
  /\ files' = Rename(files, job.output_file, job.final_path)
  /\ rpc' = "m_unlink_sub"
  /\ UNCHANGED <<storeVars, handlerVars, waiterVars, nextUrl, mpc, args, fx, exit_status, job>>

MergeUnlinkSub ==
  /\ rpc = "m_unlink_sub"
  /\ files' = SafeUnlink(files, job.final_sub)
  /\ rpc' = "m_ok"
  /\ UNCHANGED <<storeVars, handlerVars, waiterVars, nextUrl, mpc, args, fx, exit_status, job>>

\* Variant of the failure branch that clears the inputs away.
MergeFailedCleans ==
  /\ rpc = "m_failed"
  /\ files' = SafeUnlink(SafeUnlink(files, job.video_file), job.audio_file)
  /\ rpc' = "m_done"
  /\ UNCHANGED <<storeVars, handlerVars, waiterVars, nextUrl, mpc, args, fx, exit_status, job>>

\* The failure branch: the error and the last log line are printed.
MergeFailed ==
  /\ rpc = "m_failed"
  /\ rpc' = "m_done"
  /\ UNCHANGED <<storeVars, handlerVars, waiterVars, nextUrl, mpc, args, fx, exit_status, job, files>>

\* Directories and arguments of a merge.
MergePaths ==
  {<<"base", "mp4">>, <<"base", "mkv">>, <<"base", "v2", "mp4">>, <<"base", "m4a">>,
   <<"base", "audio", "m4a">>, <<"base", "audio", "m4a", "part">>,
   <<"base", "srt">>, <<"base_final", "mp4">>}
PathSize(p) == IF Len(p) = 2 /\ p[2] = "mp4" THEN 4 * MIN_SIZE ELSE 2 * MIN_SIZE
MergeDirs ==
  {[p \in S |-> Data(PathSize(p), "original")] :
     S \in {T \in SUBSET MergePaths : Cardinality(T) <= MaxFiles}}
Modes == {"embed_mp4", "embed_mkv", "convert_srt"}
AudioArgs ==
  {NoPath, <<"base", "audio", "m4a">>, <<"base", "m4a">>, <<"base", "mkv">>,
   <<"base", "audio", "m4a", "part">>}

\* The arguments, the locals not yet set, and for reference the directory
\* and the audio_file argument as they were at the call.
MergeArgs ==
  {[a EXCEPT !.audio_arg = a.audio_file] :
     a \in [url : {"none", "vtt", "srt"}, mode : Modes, video_ext : {"mp4", "mkv"},
            audio_file : AudioArgs, ffmpeg : BOOLEAN, final_sub : {NoPath},
            video_file : {NoPath}, output_file : {NoPath}, final_path : {NoPath},
            rc : {0}, dir : MergeDirs, audio_arg : {NoPath},
            fetched : {FALSE}, cmd : {NoCommand}]}

InitMerge ==
  /\ StoreInit
  /\ HandlerInit
  /\ WaiterInit
  /\ enable_console = FALSE
  /\ nextUrl = 1
  /\ mpc = "off" /\ args = <<>> /\ fx = {} /\ exit_status = <<>>
  /\ rpc = "m_start"
  /\ job \in MergeArgs
  /\ files = job.dir

NextMerge ==
  \/ MergeStart
  \/ \E ok \in BOOLEAN : \E converted \in BOOLEAN : MergeSubtitle(ok, converted)
  \/ MergeDiscover
  \/ \E rc \in {0, 1} : \E out \in {"none", "empty", "full"} : MergeRun(rc, out)
  \/ MergeUnlinkVideo
  \/ MergeUnlinkAudio
  \/ MergeUnlinkFinal
  \/ MergeRename
  \/ MergeUnlinkSub
  \/ MergeFailed

SpecMerge == InitMerge /\ [][NextMerge]_vars

\* The cleanup phase when the file system refuses an operation.
\* _safe_unlink: `except OSError: pass`, the file stays and the next call
\* follows.
MergeUnlinkFails ==
  /\ rpc \in {"m_unlink_video", "m_unlink_audio", "m_unlink_final", "m_unlink_sub"}
  /\ Exists(files, CASE rpc = "m_unlink_video" -> job.video_file
                     [] rpc = "m_unlink_audio" -> job.audio_file
                     [] rpc = "m_unlink_final" -> job.final_path
                     [] rpc = "m_unlink_sub" -> job.final_sub)
  /\ rpc' = CASE rpc = "m_unlink_video" -> "m_unlink_audio"
              [] rpc = "m_unlink_audio" -> "m_unlink_final"
              [] rpc = "m_unlink_final" -> "m_rename"
              [] rpc = "m_unlink_sub" -> "m_ok"
  /\ UNCHANGED <<storeVars, handlerVars, waiterVars, nextUrl, mpc, args, fx, exit_status, job, files>>

\* Variant of the failed rename that removes the working output.
MergeRenameFailsCleans ==
  /\ rpc = "m_rename"
  /\ files' = SafeUnlink(files, job.output_file)
  /\ rpc' = "m_error"
  /\ UNCHANGED <<storeVars, handlerVars, waiterVars, nextUrl, mpc, args, fx, exit_status, job>>

\* output_file.rename(final_path) raises: `except Exception` reports it.
MergeRenameFails ==
  /\ rpc = "m_rename"
  /\ rpc' = "m_error"
  /\ UNCHANGED <<storeVars, handlerVars, waiterVars, nextUrl, mpc, args, fx, exit_status, job, files>>

NextMergeFaults ==
  \/ NextMerge
  \/ MergeUnlinkFails
  \/ MergeRenameFails

SpecMergeFaults == InitMerge /\ [][NextMergeFaults]_vars

(***************************************************************************)
(* Downloader.download_stream (core/downloader.py).  job holds the         *)
(* arguments, the locals and the outcome of the call: result is "running", *)
(* the value returned ("None") or the exception that left the function.    *)
(***************************************************************************)
NoFormat == "None"

\* `requested_ext = "mkv" if embed_mode == "embed_mkv" else "mp4"`
RequestedExt(embed_mode) == IF embed_mode = "embed_mkv" THEN "mkv" ELSE "mp4"

\* `if not force_mode and fmt and audio_id:`
SplitStrategy(j) == ~j.force_mode /\ j.fmt # NoFormat /\ j.audio_id # NoFormat

\* `(sub and sub["type"] == "external") or (orphan_audio_file is not None)`
ShouldMerge(j) == j.sub = "external" \/ j.orphan # NoPath

\* The http_headers literal: target.get("page", "") is None when the capture
\* carries page: None, and None has no split.
DownloadHeaders ==
  /\ rpc = "d_start"
  /\ IF job.page = "None"
       THEN /\ job' = [job EXCEPT !.result = "AttributeError"]
            /\ rpc' = "d_raised"
       ELSE /\ job' = job
            /\ rpc' = "d_strategy"
  /\ UNCHANGED <<storeVars, handlerVars, waiterVars, nextUrl, mpc, args, fx, exit_status, files>>

\* _start_download returns True when ydl.download returned and False when
\* it raised; a pass that returned has left the file of its outtmpl, unless
\* errors were ignored (ext = "none").
StartDownload(dir, ok, path) ==
  IF ok /\ path # NoPath
    THEN WriteFile(dir, path, Data(IF Len(path) = 2 THEN 4 * MIN_SIZE ELSE 2 * MIN_SIZE, "download"))
    ELSE dir

Output(ext) == IF ext = "none" THEN NoPath ELSE <<Base, ext>>

\* Split strategy, first pass: the video format into <base>.<ext>.
DownloadVideoPass(ok, ext) ==
  /\ rpc = "d_strategy"
  /\ SplitStrategy(job)
  /\ ext # "none"
  /\ job' = [job EXCEPT !.strategy = "split", !.success_video = ok]
  /\ files' = StartDownload(files, ok, Output(ext))
  /\ rpc' = "d_audio"
  /\ UNCHANGED <<storeVars, handlerVars, waiterVars, nextUrl, mpc, args, fx, exit_status>>

\* `success = success_video`
SplitSuccess(j, ok) == j.success_video

\* Split strategy, second pass: the audio format into <base>.audio.<ext>.
DownloadAudioPass(ok) ==
  /\ rpc = "d_audio"
  /\ job' = [job EXCEPT !.success_audio = ok, !.success = SplitSuccess(job, ok)]
  /\ files' = StartDownload(files, ok, <<Base, "audio", "m4a">>)
  /\ rpc' = "d_check"
  /\ UNCHANGED <<storeVars, handlerVars, waiterVars, nextUrl, mpc, args, fx, exit_status>>

\* Single pass: forced best, the chosen video format, or "best"; ignoreerrors
\* stays True here, so a pass can return without having written a file.
DownloadSinglePass(ok, ext) ==
  /\ rpc = "d_strategy"
  /\ ~SplitStrategy(job)
  /\ job' = [job EXCEPT !.strategy = "single", !.success = ok]
  /\ files' = StartDownload(files, ok, Output(ext))
  /\ rpc' = "d_check"
  /\ UNCHANGED <<storeVars, handlerVars, waiterVars, nextUrl, mpc, args, fx, exit_status>>

\* `if not success: return`
DownloadCheck ==
  /\ rpc = "d_check"
  /\ IF job.success
       THEN /\ job' = job
            /\ rpc' = "d_detect"
       ELSE /\ job' = [job EXCEPT !.result = "None"]
            /\ rpc' = "d_returned"
  /\ UNCHANGED <<storeVars, handlerVars, waiterVars, nextUrl, mpc, args, fx, exit_status, files>>

\* `found_file, actual_ext, orphan_audio_file = self._detect_files(filename)`
DownloadDetect ==
  /\ rpc = "d_detect"
  /\ \E r \in DetectFiles(files, Base) :
       job' = [job EXCEPT !.detected = TRUE, !.found = r.found, !.ext = r.ext,
                          !.orphan = r.orphan]
  /\ rpc' = "d_merge"
  /\ UNCHANGED <<storeVars, handlerVars, waiterVars, nextUrl, mpc, args, fx, exit_status, files>>

\* `if found_file: ... if should_merge: StreamMerger.process_external_sub_sync(...)`
\* and the end of the function, which returns nothing.
DownloadMerge ==
  /\ rpc = "d_merge"
  /\ job' = [job EXCEPT !.merger = (job.found # NoPath /\ ShouldMerge(job)),
                        !.result = "None"]
  /\ rpc' = "d_returned"
  /\ UNCHANGED <<storeVars, handlerVars, waiterVars, nextUrl, mpc, args, fx, exit_status, files>>

\* The download directory at the call: empty, or holding an older file.
DownloadDirs ==
  {<<>>, [p \in {<<Base, "m4a">>} |-> Data(2 * MIN_SIZE, "original")]}

\* The page of a capture: the key missing, None (CapturedItem.to_dict of a
\* capture posted without page) or a URL.
Pages == {"absent", "None", "url"}

DownloadArgs ==
  [page : Pages, force_mode : BOOLEAN, fmt : {NoFormat, "137"},
   audio_id : {NoFormat, "140"}, sub : {"None", "internal", "external"},
   embed_mode : Modes \cup {"raw"}, strategy : {"none"}, success_video : {FALSE},
   success_audio : {FALSE}, success : {FALSE}, detected : {FALSE}, found : {NoPath},
   ext : {""}, orphan : {NoPath}, merger : {FALSE}, result : {"running"}]

InitDownload ==
  /\ StoreInit
  /\ HandlerInit
  /\ WaiterInit
  /\ enable_console = FALSE
  /\ nextUrl = 1
  /\ mpc = "off" /\ args = <<>> /\ fx = {} /\ exit_status = <<>>
  /\ rpc = "d_start"
  /\ job \in DownloadArgs
  /\ files \in DownloadDirs

NextDownload ==
  \/ DownloadHeaders
  \/ \E ok \in BOOLEAN : \E ext \in {"mp4", "mkv"} : DownloadVideoPass(ok, ext)
  \/ \E ok \in BOOLEAN : DownloadAudioPass(ok)
  \/ \E ok \in BOOLEAN : \E ext \in {"mp4", "mkv", "none"} : DownloadSinglePass(ok, ext)
  \/ DownloadCheck
  \/ DownloadDetect
  \/ DownloadMerge

SpecDownload == InitDownload /\ [][NextDownload]_vars

(***************************************************************************)
(* VantaEngine.run and analyze_and_select (core/engine.py).  job holds the *)
(* selected target, the values analyze_and_select returns, run's locals    *)
(* and what the operator has seen: cookie is the file create_cookie_file   *)
(* wrote (NoPath if none), c_file is run's local of that name.             *)
(***************************************************************************)
CookiePath == <<"cookies_1", "txt">>

runFrame == <<storeVars, handlerVars, waiterVars, nextUrl, mpc, args, fx, exit_status>>

\* `target = self.wait_for_target_interactive()` and
\* `fname = self.file_manager.get_user_filename(target.get("title", ...))`:
\* the title of a capture posted without one is None, which re.sub rejects.
RunSelect ==
  /\ rpc = "r_start"
  /\ IF job.title = "None"
       THEN /\ job' = [job EXCEPT !.result = "TypeError"]
            /\ rpc' = "r_except"
       ELSE /\ job' = job
            /\ rpc' = "a_cookie"
  /\ UNCHANGED <<runFrame, files>>

\* `c_file = create_cookie_file(...)`: the path of the file written, or ""
\* after an IOError.
AnalyzeCookie(written) ==
  /\ rpc = "a_cookie"
  /\ IF written
       THEN /\ files' = WriteFile(files, CookiePath, Data(1, "cookies"))
            /\ job' = [job EXCEPT !.cookie = CookiePath]
       ELSE /\ files' = files
            /\ job' = job
  /\ rpc' = "a_extract"
  /\ UNCHANGED runFrame

\* `info = ydl.extract_info(target["url"], download=False)` in its try.
AnalyzeExtract(ok) ==
  /\ rpc = "a_extract"
  /\ rpc' = IF ok THEN "a_select" ELSE "a_raw_prompt"
  /\ UNCHANGED <<runFrame, job, files>>

\* The except branch: Confirm.ask(try_raw).  Accepting returns
\* (None, None, None, "raw", c_file, True); declining unlinks the cookie
\* file and returns (None, None, None, "cancel", "", False).
AnalyzeRawPrompt(accept) ==
  /\ rpc = "a_raw_prompt"
  /\ IF accept
       THEN /\ job' = [job EXCEPT !.raw = TRUE, !.embed_mode = "raw",
                                  !.c_file = job.cookie, !.force_mode = TRUE]
            /\ files' = files
       ELSE /\ job' = [job EXCEPT !.declined = TRUE, !.embed_mode = "cancel"]
            /\ files' = SafeUnlink(files, job.cookie)
  /\ rpc' = "r_dispatch"
  /\ UNCHANGED runFrame

\* The rest of analyze_and_select after a successful extraction: the
\* quality menu, the audio menu, the subtitle table and the embed mode
\* prompt.  An exception here (info.get on None, s["url"] of a subtitle
\* entry without url, a failing prompt) leaves the function before run's
\* tuple assignment.
AnalyzeSelect(fmt, audio, sub, mode, raises) ==
  /\ rpc = "a_select"
  /\ audio # NoFormat => fmt # NoFormat
  /\ (sub = "None") <=> (mode = "none")
  /\ IF raises
       THEN /\ job' = [job EXCEPT !.result = "KeyError"]
            /\ rpc' = "r_except"
       ELSE /\ job' = [job EXCEPT !.menu = TRUE, !.fmt = fmt, !.audio_id = audio,
                                  !.sub = sub, !.embed_mode = mode,
                                  !.c_file = job.cookie,
                                  !.force_mode = (fmt = NoFormat)]
            /\ rpc' = "r_dispatch"
  /\ UNCHANGED <<runFrame, files>>

\* `if mode == "cancel": ... return` / `if fmt or force:` / else init_failed
RunDispatch ==
  /\ rpc = "r_dispatch"
  /\ IF job.embed_mode = "cancel"
       THEN /\ job' = job
            /\ rpc' = "r_finally"
       ELSE IF job.fmt # NoFormat \/ job.force_mode
         THEN /\ job' = [job EXCEPT !.downloaded = TRUE]
              /\ rpc' = "d_start"
         ELSE /\ job' = job
              /\ rpc' = "r_finally"
  /\ UNCHANGED <<runFrame, files>>

\* Truth value of what download_stream returned.
Truthy(result) == result = "True"

\* `success = ...download_stream(...)`, `if success: if Confirm.ask(
\* create_technical_report): self.report_generator.create_report(...)`
RunAfterDownload(accept) ==
  /\ rpc = "d_returned"
  /\ IF Truthy(job.result)
       THEN job' = [job EXCEPT !.prompt = TRUE, !.report = accept]
       ELSE job' = job
  /\ rpc' = "r_finally"
  /\ UNCHANGED <<runFrame, files>>

\* `except Exception as e:` prints critical_error and the traceback.
RunExcept ==
  /\ rpc \in {"r_except", "d_raised"}
  /\ job' = [job EXCEPT !.critical = TRUE]
  /\ rpc' = "r_finally"
  /\ UNCHANGED <<runFrame, files>>

\* `finally: if c_file and Path(c_file).exists(): Path(c_file).unlink()`
RunFinally ==
  /\ rpc = "r_finally"
  /\ files' = IF job.c_file # NoPath THEN SafeUnlink(files, job.c_file) ELSE files
  /\ rpc' = "r_returned"
  /\ UNCHANGED <<runFrame, job>>

RunArgs ==
  [title : {"None", "text"}, page : {"None", "url"}, cookie : {NoPath}, c_file : {NoPath},
   raw : {FALSE}, declined : {FALSE}, menu : {FALSE}, downloaded : {FALSE},
   prompt : {FALSE}, report : {FALSE}, critical : {FALSE},
   force_mode : {FALSE}, fmt : {NoFormat}, audio_id : {NoFormat}, sub : {"None"},
   embed_mode : {"none"}, strategy : {"none"}, success_video : {FALSE},
   success_audio : {FALSE}, success : {FALSE}, detected : {FALSE}, found : {NoPath},
   ext : {""}, orphan : {NoPath}, merger : {FALSE}, result : {"running"}]

InitRun ==
  /\ StoreInit
  /\ HandlerInit
  /\ WaiterInit
  /\ enable_console = FALSE
  /\ nextUrl = 1
  /\ mpc = "off" /\ args = <<>> /\ fx = {} /\ exit_status = <<>>
  /\ rpc = "r_start"
  /\ job \in RunArgs
  /\ files \in DownloadDirs

NextRun ==
  \/ RunSelect
  \/ \E written \in BOOLEAN : AnalyzeCookie(written)
  \/ \E ok \in BOOLEAN : AnalyzeExtract(ok)
  \/ \E accept \in BOOLEAN : AnalyzeRawPrompt(accept)
  \/ \E fmt \in {NoFormat, "137"} : \E audio \in {NoFormat, "140"} :
       \E sub \in {"None", "internal", "external"} :
         \E mode \in {"none", "convert_srt", "embed_mp4", "embed_mkv", "raw"} :
           \E raises \in BOOLEAN : AnalyzeSelect(fmt, audio, sub, mode, raises)
  \/ RunDispatch
  \/ NextDownload
  \/ \E accept \in BOOLEAN : RunAfterDownload(accept)
  \/ RunExcept
  \/ RunFinally

SpecRun == InitRun /\ [][NextRun]_vars

(***************************************************************************)
(* FormatSelector.select_video_format (core/selector.py).  A candidate is  *)
(* a record of the keys the function reads; 0 and "" stand for a key that  *)
(* is missing or None.                                                     *)
(***************************************************************************)
Formats ==
  [height : {0, 720, 1080}, tbr : {3000, 5000}, filesize : {0, 5},
   vcodec : {"none", "avc1"}, format_note : {"", "HD"}]

\* `f.get("height") or f.get("vcodec", "none") != "none" or f.get("format_note")`
IsVideoFormat(f) == f.height # 0 \/ f.vcodec # "none" \/ f.format_note # ""

\* key=lambda x: (height or 0, tbr or 0, filesize or 0), compared as tuples
KeyLess(f, g) ==
  \/ f.height < g.height
  \/ f.height = g.height /\ f.tbr < g.tbr
  \/ f.height = g.height /\ f.tbr = g.tbr /\ f.filesize < g.filesize

RECURSIVE FilterVideo(_)
FilterVideo(s) ==
  IF s = <<>> THEN <<>>
  ELSE IF IsVideoFormat(Head(s)) THEN <<Head(s)>> \o FilterVideo(Tail(s))
  ELSE FilterVideo(Tail(s))

\* sorted(..., reverse=True): descending by key, candidates of equal key in
\* their original order.
RECURSIVE InsertDesc(_, _)
InsertDesc(s, f) ==
  IF s = <<>> THEN <<f>>
  ELSE IF KeyLess(Head(s), f) THEN <<f>> \o s
  ELSE <<Head(s)>> \o InsertDesc(Tail(s), f)

RECURSIVE SortedDesc(_)
SortedDesc(s) ==
  IF s = <<>> THEN <<>> ELSE InsertDesc(SortedDesc(SubSeq(s, 1, Len(s) - 1)), s[Len(s)])

\* `res_str = f"{height}p" if height else (f.get("format_note") or unknown)`
ResStr(f) ==
  IF f.height # 0 THEN <<"p", f.height>>
  ELSE IF f.format_note # "" THEN <<"note", f.format_note>> ELSE <<"unknown", "">>

\* `unique_key = f"{res_str}_{f.get('filesize')}"`
UniqueKey(f) == <<ResStr(f), f.filesize>>

RECURSIVE Dedup(_, _)
Dedup(s, seen) ==
  IF s = <<>> THEN <<>>
  ELSE IF UniqueKey(Head(s)) \in seen THEN Dedup(Tail(s), seen)
  ELSE <<Head(s)>> \o Dedup(Tail(s), seen \cup {UniqueKey(Head(s))})

UniqueFmts(formats) == Dedup(SortedDesc(FilterVideo(formats)), {})

\* The body up to the table: None for no formats or no video candidate,
\* otherwise the menu is shown.
SelectBuild ==
  /\ rpc = "s_start"
  /\ job' = [job EXCEPT !.menu = UniqueFmts(job.formats)]
  /\ rpc' = IF UniqueFmts(job.formats) = <<>> THEN "s_none" ELSE "s_menu"
  /\ UNCHANGED <<storeVars, handlerVars, waiterVars, nextUrl, mpc, args, fx, exit_status, files>>

\* `choice = Prompt.ask(..., choices=choices)`, `return unique_fmts[int(choice) - 1]`
SelectChoose(choice) ==
  /\ rpc = "s_menu"
  /\ choice \in 1..Len(job.menu)
  /\ job' = [job EXCEPT !.selected = <<job.menu[choice]>>]
  /\ rpc' = "s_done"
  /\ UNCHANGED <<storeVars, handlerVars, waiterVars, nextUrl, mpc, args, fx, exit_status, files>>

FormatLists == UNION {[1..n -> Formats] : n \in 0..MaxFormats}

InitSelect ==
  /\ StoreInit
  /\ HandlerInit
  /\ WaiterInit
  /\ enable_console = FALSE
  /\ nextUrl = 1
  /\ mpc = "off" /\ args = <<>> /\ fx = {} /\ exit_status = <<>>
  /\ rpc = "s_start"
  /\ \E l \in FormatLists : job = [formats |-> l, input |-> l, menu |-> <<>>, selected |-> <<>>]
  /\ files = <<>>

NextSelect ==
  \/ SelectBuild
  \/ \E choice \in 1..MaxFormats : SelectChoose(choice)

SpecSelect == InitSelect /\ [][NextSelect]_vars

(***************************************************************************)
(* PlaylistManager.process_playlist_selection (core/playlist.py).  What    *)
(* the operator types is a record of what the function asks of the text:   *)
(* lower() == "all", isdigit(), and the value of int() or its ValueError   *)
(* (str.isdigit accepts digits such as the superscript two that int        *)
(* rejects).                                                               *)
(***************************************************************************)
EntryKinds == {"url", "webpage_url", "id", "bare"}

EntryLists == UNION {[1..n -> EntryKinds] : n \in 0..MaxEntries}

PlaylistChoices ==
  {[text |-> "all", isdigit |-> FALSE, int |-> -1],
   [text |-> "ALL", isdigit |-> FALSE, int |-> -1],
   [text |-> "x", isdigit |-> FALSE, int |-> -1],
   [text |-> "", isdigit |-> FALSE, int |-> -1],
   [text |-> "superscript 2", isdigit |-> TRUE, int |-> -1]}
  \cup {[text |-> "digits", isdigit |-> TRUE, int |-> n] : n \in 0..(MaxEntries + 1)}

\* choice.lower() == "all"
IsAll(choice) == choice.text \in {"all", "ALL"}

\* `choice = Prompt.ask(...)` and the three branches on it.
PlaylistChoice(choice) ==
  /\ rpc = "p_start"
  /\ IF IsAll(choice)
       THEN /\ job' = [job EXCEPT !.choice = choice]
            /\ rpc' = "p_confirm"
       ELSE IF choice.isdigit
         THEN IF choice.int < 0
           THEN /\ job' = [job EXCEPT !.choice = choice, !.result = "ValueError"]
                /\ rpc' = "p_raised"
           ELSE /\ job' = [job EXCEPT !.choice = choice, !.result = "returned",
                        !.selected = IF 0 <= choice.int - 1 /\ choice.int - 1 < Len(job.entries)
                                       THEN <<job.entries[choice.int]>> ELSE <<>>]
                /\ rpc' = "p_returned"
         ELSE /\ job' = [job EXCEPT !.choice = choice, !.result = "returned"]
              /\ rpc' = "p_returned"
  /\ UNCHANGED <<storeVars, handlerVars, waiterVars, nextUrl, mpc, args, fx, exit_status, files>>

\* `if Confirm.ask(confirm_bulk_download)`: audio-only forces best at once,
\* otherwise the bulk mode prompt follows.
PlaylistConfirm(yes) ==
  /\ rpc = "p_confirm"
  /\ IF ~yes
       THEN /\ job' = [job EXCEPT !.result = "returned"]
            /\ rpc' = "p_returned"
       ELSE IF job.audio_only
         THEN /\ job' = [job EXCEPT !.confirmed = TRUE, !.force_best = TRUE,
                                    !.selected = job.entries, !.result = "returned"]
              /\ rpc' = "p_returned"
         ELSE /\ job' = [job EXCEPT !.confirmed = TRUE]
              /\ rpc' = "p_mode"
  /\ UNCHANGED <<storeVars, handlerVars, waiterVars, nextUrl, mpc, args, fx, exit_status, files>>

\* `mode = Prompt.ask(bulk_mode_choice, choices=["1", "2"])`,
\* `force_best = mode == "1"`, `selected_entries = entries`
PlaylistMode(mode) ==
  /\ rpc = "p_mode"
  /\ job' = [job EXCEPT !.mode = mode, !.force_best = (mode = "1"),
                        !.selected = job.entries, !.result = "returned"]
  /\ rpc' = "p_returned"
  /\ UNCHANGED <<storeVars, handlerVars, waiterVars, nextUrl, mpc, args, fx, exit_status, files>>

InitPlaylist ==
  /\ StoreInit
  /\ HandlerInit
  /\ WaiterInit
  /\ enable_console = FALSE
  /\ nextUrl = 1
  /\ mpc = "off" /\ args = <<>> /\ fx = {} /\ exit_status = <<>>
  /\ rpc = "p_start"
  /\ \E l \in EntryLists : \E a \in BOOLEAN :
       job = [entries |-> l, audio_only |-> a, choice |-> <<>>, confirmed |-> FALSE,
              mode |-> "", selected |-> <<>>, force_best |-> FALSE, result |-> "running"]
  /\ files = <<>>

NextPlaylist ==
  \/ \E choice \in PlaylistChoices : PlaylistChoice(choice)
  \/ \E yes \in BOOLEAN : PlaylistConfirm(yes)
  \/ \E mode \in {"1", "2"} : PlaylistMode(mode)

SpecPlaylist == InitPlaylist /\ [][NextPlaylist]_vars

(***************************************************************************)
(* Downloader.native_download, bulk branch (core/downloader.py): the loop  *)
(* over the playlist entries after `all` was confirmed.  job.idx is the    *)
(* loop index, job.processed the indices handed to                         *)
(* _process_single_native_video, in call order.                            *)
(***************************************************************************)
NativeEntryKinds == EntryKinds \cup {"none"}

\* `video_url = entry.get("url") or entry.get("webpage_url")`, rebuilt from
\* the id on a YouTube playlist; `if entry:` and `if video_url:`
VideoUrlAvailable(entry, is_youtube_playlist) ==
  \/ entry \in {"url", "webpage_url"}
  \/ entry = "id" /\ is_youtube_playlist

NativeBulkEntryAborts(raises) ==
  /\ rpc = "b_loop"
  /\ job.idx <= Len(job.entries)
  /\ IF VideoUrlAvailable(job.entries[job.idx], job.is_youtube_playlist)
       THEN /\ job' = [job EXCEPT !.idx = @ + 1, !.processed = Append(@, job.idx),
                        !.errors = IF raises THEN @ \cup {job.idx} ELSE @]
            /\ rpc' = IF raises THEN "b_done" ELSE "b_loop"
       ELSE /\ job' = [job EXCEPT !.idx = @ + 1]
            /\ rpc' = "b_loop"
  /\ UNCHANGED <<storeVars, handlerVars, waiterVars, nextUrl, mpc, args, fx, exit_status, files>>

\* One round of `for idx, entry in enumerate(entries, 1)`: the call sits in
\* a try whose `except Exception` prints and goes on.
NativeBulkEntry(raises) ==
  /\ rpc = "b_loop"
  /\ job.idx <= Len(job.entries)
  /\ IF VideoUrlAvailable(job.entries[job.idx], job.is_youtube_playlist)
       THEN job' = [job EXCEPT !.idx = @ + 1, !.processed = Append(@, job.idx),
                      !.errors = IF raises THEN @ \cup {job.idx} ELSE @]
       ELSE job' = [job EXCEPT !.idx = @ + 1]
  /\ rpc' = "b_loop"
  /\ UNCHANGED <<storeVars, handlerVars, waiterVars, nextUrl, mpc, args, fx, exit_status, files>>

\* The loop is exhausted and native_download returns.
NativeBulkEnd ==
  /\ rpc = "b_loop"
  /\ job.idx > Len(job.entries)
  /\ rpc' = "b_done"
  /\ UNCHANGED <<storeVars, handlerVars, waiterVars, nextUrl, mpc, args, fx, exit_status, files, job>>

InitBulk ==
  /\ StoreInit
  /\ HandlerInit
  /\ WaiterInit
  /\ enable_console = FALSE
  /\ nextUrl = 1
  /\ mpc = "off" /\ args = <<>> /\ fx = {} /\ exit_status = <<>>
  /\ rpc = "b_loop"
  /\ \E n \in 0..MaxEntries : \E l \in [1..n -> NativeEntryKinds] : \E y \in BOOLEAN :
       job = [entries |-> l, is_youtube_playlist |-> y, idx |-> 1, processed |-> <<>>,
              errors |-> {}]
  /\ files = <<>>

NextBulk ==
  \/ \E raises \in BOOLEAN : NativeBulkEntry(raises)
  \/ NativeBulkEnd

SpecBulk == InitBulk /\ [][NextBulk]_vars

(***************************************************************************)
(* The capture server's address: config.configure_server (config.py is not *)
(* part of the sources and is taken from the specification),               *)
(* VantaServer.__init__ / VantaServer.run (server/app.py) and what the     *)
(* engine shows and posts to (core/engine.py).  job holds the settings of  *)
(* config, the address the server listens on, the URL shown to the         *)
(* operator and the URL of the clear request.                              *)
(***************************************************************************)
DEFAULT_PORT == 5005
DEFAULT_HOST == "127.0.0.1"

Address(host, port) == [host |-> host, port |-> port]

\* configure_server(host, port): an argument that is given replaces the
\* default, and the server URL follows.
ConfigureAddress(cfg, host, port) ==
  Address(IF TruthyStr(host) THEN host[1] ELSE cfg.host,
          IF TruthyInt(port) THEN port[1] ELSE cfg.port)

\* `if args.port or args.host: config.configure_server(host=..., port=...)`
ServeConfigure ==
  /\ rpc = "v_parsed"
  /\ job' = IF TruthyInt(job.port) \/ TruthyStr(job.host)
              THEN [job EXCEPT !.server_url = ConfigureAddress(job.server_url, job.host, job.port)]
              ELSE job
  /\ rpc' = "v_engine"
  /\ UNCHANGED <<storeVars, handlerVars, waiterVars, nextUrl, mpc, args, fx, exit_status, files>>

\* VantaServer(capture_manager=...): port keeps its default; run() binds
\* host="127.0.0.1", port=self.port.
ServerBind == Address(DEFAULT_HOST, DEFAULT_PORT)

\* wait_for_target_interactive: the instructions name config.SERVER_URL and
\* the server thread is started.
ServeStart ==
  /\ rpc = "v_engine"
  /\ job' = [job EXCEPT !.shown = <<job.server_url>>, !.listen = <<ServerBind>>]
  /\ rpc' = "v_waiting"
  /\ UNCHANGED <<storeVars, handlerVars, waiterVars, nextUrl, mpc, args, fx, exit_status, files>>

\* The operator command `c`: requests.post(f"{config.SERVER_URL}/clear")
ServeClear ==
  /\ rpc = "v_waiting"
  /\ job' = [job EXCEPT !.clear = <<job.server_url>>]
  /\ rpc' = "v_cleared"
  /\ UNCHANGED <<storeVars, handlerVars, waiterVars, nextUrl, mpc, args, fx, exit_status, files>>

ServePorts == {NoValue, Given(0), Given(DEFAULT_PORT), Given(8080), Given(9000), Given(65535)}
ServeHosts == {NoValue, Given(""), Given("0.0.0.0"), Given(DEFAULT_HOST), Given("localhost")}

InitServe ==
  /\ StoreInit
  /\ HandlerInit
  /\ WaiterInit
  /\ enable_console = FALSE
  /\ nextUrl = 1
  /\ mpc = "off" /\ args = <<>> /\ fx = {} /\ exit_status = <<>>
  /\ rpc = "v_parsed"
  /\ \E p \in ServePorts : \E h \in ServeHosts :
       job = [port |-> p, host |-> h, server_url |-> Address(DEFAULT_HOST, DEFAULT_PORT),
              shown |-> <<>>, listen |-> <<>>, clear |-> <<>>]
  /\ files = <<>>

NextServe ==
  \/ ServeConfigure
  \/ ServeStart
  \/ ServeClear

SpecServe == InitServe /\ [][NextServe]_vars

(***************************************************************************)
(* DirectoryResolver.resolve_download_directory (utils/system.py).         *)
(* job.fs gives each place one of: "creatable" (absent, mkdir works and    *)
(* leaves a writable directory), "denied" (mkdir raises PermissionError or *)
(* OSError), "readonly" (a directory the process cannot write to),         *)
(* "writable" (a writable directory).                                      *)
(***************************************************************************)
Places == {"android_app", "downloads", "downloads_app", "home_app", "temp_app", "temp"}
Conditions == {"creatable", "denied", "readonly", "writable"}

\* path.mkdir(parents=True, exist_ok=True): raises on "denied", creates on
\* "creatable", leaves a directory that is there alone.
MkdirRaises(fs, p) == fs[p] = "denied"
Mkdir(fs, p) == IF fs[p] = "creatable" THEN [fs EXCEPT ![p] = "writable"] ELSE fs

\* _is_writable_directory: exists, is a directory, os.access(path, W_OK)
IsWritableDirectory(fs, p) == fs[p] = "writable"

\* _ensure_app_directory returns the path when mkdir did not raise and the
\* directory is writable, None otherwise.
EnsureAppDirectory(fs, p) == ~MkdirRaises(fs, p) /\ IsWritableDirectory(Mkdir(fs, p), p)

\* One step of the waterfall that goes through _ensure_app_directory.
ResolveStep(p, next) ==
  IF EnsureAppDirectory(job.fs, p)
    THEN /\ job' = [job EXCEPT !.fs = Mkdir(job.fs, p), !.result = p]
         /\ rpc' = "x_returned"
    ELSE /\ job' = [job EXCEPT !.fs = IF MkdirRaises(job.fs, p) THEN job.fs ELSE Mkdir(job.fs, p)]
         /\ rpc' = next

\* `if "ANDROID_ROOT" in os.environ:`
ResolveAndroid ==
  /\ rpc = "x_android"
  /\ IF job.android
       THEN ResolveStep("android_app", "x_downloads")
       ELSE job' = job /\ rpc' = "x_downloads"
  /\ UNCHANGED <<storeVars, handlerVars, waiterVars, nextUrl, mpc, args, fx, exit_status, files>>

\* `downloads_base.mkdir(...)`, then _ensure_app_directory(downloads_base),
\* all inside try/except (PermissionError, OSError).
ResolveDownloads ==
  /\ rpc = "x_downloads"
  /\ IF MkdirRaises(job.fs, "downloads")
       THEN job' = job /\ rpc' = "x_home"
       ELSE ResolveStep("downloads_app", "x_home")
  /\ UNCHANGED <<storeVars, handlerVars, waiterVars, nextUrl, mpc, args, fx, exit_status, files>>

\* _ensure_app_directory(home)
ResolveHome ==
  /\ rpc = "x_home"
  /\ ResolveStep("home_app", "x_temp")
  /\ UNCHANGED <<storeVars, handlerVars, waiterVars, nextUrl, mpc, args, fx, exit_status, files>>

\* The last resort: mkdir of <temp>/VantaEther, bare <temp> if that raises;
\* the path is returned as it is.
ResolveTemp ==
  /\ rpc = "x_temp"
  /\ IF MkdirRaises(job.fs, "temp_app")
       THEN job' = [job EXCEPT !.result = "temp"]
       ELSE job' = [job EXCEPT !.fs = Mkdir(job.fs, "temp_app"), !.result = "temp_app"]
  /\ rpc' = "x_returned"
  /\ UNCHANGED <<storeVars, handlerVars, waiterVars, nextUrl, mpc, args, fx, exit_status, files>>

\* The file systems met: the Downloads folder and the bare temp directory
\* exist or not, every application directory is in any condition.
ResolveFs ==
  {fs \in [Places -> Conditions] :
     /\ fs["downloads"] \in {"creatable", "denied", "writable"}
     /\ fs["temp"] \in {"readonly", "writable"}}

InitResolve ==
  /\ StoreInit
  /\ HandlerInit
  /\ WaiterInit
  /\ enable_console = FALSE
  /\ nextUrl = 1
  /\ mpc = "off" /\ args = <<>> /\ fx = {} /\ exit_status = <<>>
  /\ rpc = "x_android"
  /\ \E a \in BOOLEAN : \E fs \in ResolveFs :
       job = [android |-> a, fs |-> fs, initial |-> fs, result |-> "none"]
  /\ files = <<>>

NextResolve ==
  \/ ResolveAndroid
  \/ ResolveDownloads
  \/ ResolveHome
  \/ ResolveTemp

SpecResolve == InitResolve /\ [][NextResolve]_vars

(***************************************************************************)
(* VantaEngine.wait_for_target_interactive (core/engine.py): the wait      *)
(* loop, the capture table and the prompt.  The engine is the waiter       *)
(* Engine of the capture manager; rpc is its place in the outer loop and   *)
(* job holds last_item_count, the valid_videos of the table on screen, the *)
(* last answer at the prompt and the selected target.  The printing of     *)
(* remote-log lines (seen_logs) changes nothing else and is left out.      *)
(***************************************************************************)
LogBody(u) ==
  Body([k \in {"url", "type", "source"} |->
          IF k = "url" THEN u ELSE IF k = "type" THEN "video" ELSE "REMOTE_LOG"])

UiBodies == {Body(Full(u, "video")) : u \in URLs} \cup {LogBody(u) : u \in URLs}

\* [v for v in all_items if v.get("source") != "REMOTE_LOG"]
IsVisible(v) == v.source # "REMOTE_LOG"
ValidVideos(list) == SelectSeq(list, IsVisible)

uiFrame == <<handlerVars, enable_console, sevent, wadds, nextUrl, mpc, args, fx, exit_status, files>>

\* The inner loop after wait_for_item(timeout=1.0) returned: the snapshot
\* is read only `if has_new_data or self.enable_console`, and the loop is
\* left when `current_count > 0 and current_count > last_item_count`.
UiLoop ==
  /\ rpc = "w_loop"
  /\ wpc[Engine] = "ret"
  /\ IF wflag[Engine] \/ enable_console
       THEN /\ lock = NoThread
            /\ snapshot' = GetSnapshot
            /\ LET current_count == Len(ValidVideos(GetSnapshot.videos))
               IN  rpc' = IF current_count > 0 /\ current_count > job.last_item_count
                            THEN "w_render" ELSE "w_loop"
       ELSE /\ snapshot' = snapshot
            /\ rpc' = "w_loop"
  /\ wpc' = [wpc EXCEPT ![Engine] = "wait"]
  /\ UNCHANGED <<storeVars, wflag, job, uiFrame>>

\* A table that lists all of display_pool["videos"].
UiRenderUnfiltered ==
  /\ rpc = "w_render"
  /\ lock = NoThread
  /\ LET valid_videos == GetSnapshot.videos
     IN  job' = [job EXCEPT !.valid_videos = valid_videos,
                            !.last_item_count = Len(valid_videos)]
  /\ rpc' = "w_prompt"
  /\ UNCHANGED <<storeVars, wpc, wflag, snapshot, uiFrame>>

\* The table: display_pool = get_snapshot(), valid_videos, last_item_count.
UiRender ==
  /\ rpc = "w_render"
  /\ lock = NoThread
  /\ LET valid_videos == ValidVideos(GetSnapshot.videos)
     IN  job' = [job EXCEPT !.valid_videos = valid_videos,
                            !.last_item_count = Len(valid_videos)]
  /\ rpc' = "w_prompt"
  /\ UNCHANGED <<storeVars, wpc, wflag, snapshot, uiFrame>>

\* What the operator types, as for the playlist prompt: the text, and for
\* text that isdigit() the value of int() (-1 when int() raises).
UiChoices ==
  {[text |-> "r", isdigit |-> FALSE, int |-> -1],
   [text |-> "c", isdigit |-> FALSE, int |-> -1],
   [text |-> "x", isdigit |-> FALSE, int |-> -1],
   [text |-> "superscript 2", isdigit |-> TRUE, int |-> -1]}
  \cup {[text |-> "digits", isdigit |-> TRUE, int |-> n] : n \in 0..(NumUrls + 1)}

NoChoice == [text |-> "", isdigit |-> FALSE, int |-> -1]

\* `choice = Prompt.ask(...)` and its branches; posted says whether the
\* clear request went through.
UiPrompt(choice, posted) ==
  /\ rpc = "w_prompt"
  /\ IF choice.text = "r"
       THEN /\ job' = [job EXCEPT !.choice = choice, !.last_item_count = -1]
            /\ rpc' = "w_loop"
            /\ UNCHANGED storeVars
       ELSE IF choice.text = "c"
         THEN IF posted
           THEN /\ lock = NoThread
                /\ videos' = <<>> /\ subs' = <<>> /\ event' = FALSE
                /\ job' = [job EXCEPT !.choice = choice, !.last_item_count = -1]
                /\ rpc' = "w_loop"
                /\ UNCHANGED <<lock, woken, clock>>
           ELSE /\ job' = [job EXCEPT !.choice = choice]
                /\ rpc' = "w_loop"
                /\ UNCHANGED storeVars
         ELSE IF choice.isdigit
           THEN IF choice.int < 0
             THEN /\ job' = [job EXCEPT !.choice = choice]
                  /\ rpc' = "w_raised"
                  /\ UNCHANGED storeVars
             ELSE IF 1 <= choice.int /\ choice.int <= Len(job.valid_videos)
               THEN /\ job' = [job EXCEPT !.choice = choice,
                                          !.selected = <<job.valid_videos[choice.int]>>]
                    /\ rpc' = "w_selected"
                    /\ UNCHANGED storeVars
               ELSE /\ job' = [job EXCEPT !.choice = choice]
                    /\ rpc' = "w_loop"
                    /\ UNCHANGED storeVars
           ELSE /\ job' = [job EXCEPT !.choice = choice]
                /\ rpc' = "w_loop"
                /\ UNCHANGED storeVars
  /\ UNCHANGED <<wpc, wflag, snapshot, uiFrame>>

\* wait_for_item as the engine calls it, inside the inner loop only.
UiWait ==
  /\ rpc = "w_loop"
  /\ \/ WaitEnter(Engine)
     \/ WaitNotified(Engine)
     \/ WaitTimeout(Engine)
     \/ WaitClear(Engine)

InitUi ==
  /\ StoreInit
  /\ HandlerInit
  /\ WaiterInit
  /\ enable_console \in BOOLEAN
  /\ nextUrl = 1
  /\ mpc = "off" /\ args = <<>> /\ fx = {} /\ exit_status = <<>>
  /\ rpc = "w_loop"
  /\ job = [last_item_count |-> -1, valid_videos |-> <<>>, choice |-> NoChoice,
            selected |-> <<>>]
  /\ files = <<>>

NextUi ==
  \/ \E data \in UiBodies : Snipe(Driver, data)
  \/ AddItemAppend(Driver)
  \/ AddItemPrune(Driver)
  \/ AddItemSet(Driver)
  \/ UiWait
  \/ UiLoop
  \/ UiRender
  \/ \E choice \in UiChoices : \E posted \in BOOLEAN : UiPrompt(choice, posted)
  \/ \E s \in Streams : WaitEnter(s)
  \/ \E s \in Streams : WaitNotified(s)
  \/ \E s \in Streams : WaitTimeout(s)
  \/ \E s \in Streams : WaitClear(s)
  \/ \E s \in Streams : StreamEmit(s)
  \/ \E s \in Streams : StreamSleep(s)

SpecUi == InitUi /\ [][NextUi]_vars

\* Every thread that can take a step does so in the end; what the browser
\* posts and what the operator types is under no obligation.
UiFairness ==
  /\ SF_vars(AddItemAppend(Driver))
  /\ WF_vars(AddItemPrune(Driver))
  /\ WF_vars(AddItemSet(Driver))
  /\ WF_vars(UiWait)
  /\ SF_vars(UiLoop)
  /\ SF_vars(UiRender)
  /\ \A s \in Streams :
       /\ WF_vars(WaitEnter(s))
       /\ WF_vars(WaitNotified(s))
       /\ WF_vars(WaitTimeout(s))
       /\ WF_vars(WaitClear(s))
       /\ SF_vars(StreamEmit(s))
       /\ WF_vars(StreamSleep(s))

SpecUiFair == InitUi /\ [][NextUi]_vars /\ UiFairness

(***************************************************************************)
(* Claims about add_item and POST /snipe.                                  *)
(***************************************************************************)
NoDupUrls(list) ==
  \A i, j \in 1..Len(list) : i # j => list[i].url # list[j].url

\* The URL of h's item is already held by the group its type selects.
PresentInGroup(h) ==
  LET item == hitem[h]
      g == GroupOf(item.media_type)
  IN  \/ g = "videos" /\ HasUrl(videos, item.url)
      \/ g = "subs" /\ HasUrl(subs, item.url)

DuplicateRejected(h) ==
  /\ (hpc[h] = "acquire" /\ hpc'[h] # "acquire" /\ PresentInGroup(h))
       => /\ hpc'[h] = "set"
          /\ ~hadded'[h]
          /\ UNCHANGED <<videos, subs, event, woken>>
  /\ (hpc[h] = "set" /\ ~hadded[h] /\ hpc'[h] = "idle")
       => /\ hret'[h] = "False"
          /\ UNCHANGED <<videos, subs, event, woken>>

\* C1: under every interleaving of concurrent add_item calls and clears, no
\* two items of the video-like group share a URL and no two items of the
\* subtitle group share a URL, and an add_item whose URL is already in the
\* group selected by its type returns False and changes neither group nor
\* the notification flag.
C1_UniquePerGroup ==
  /\ [](NoDupUrls(videos) /\ NoDupUrls(subs))
  /\ [][\A h \in Handlers : DuplicateRejected(h)]_vars

\* C1 witness: a duplicate was rejected while the flag was unset, and the
\* same URL is held once in each group.
C1_Witness ==
  \E h \in Handlers : \E u \in URLs :
    /\ hpc[h] = "idle"
    /\ hdata[h] = Body(Full(u, "video"))
    /\ hret[h] = "False"
    /\ HasUrl(videos, u)
    /\ HasUrl(subs, u)
    /\ Len(videos) = NumUrls
    /\ ~event

\* h answered a /snipe request in this step without entering the lock.
SnipeAnsweredAtOnce(h) ==
  /\ hpc[h] = "idle"
  /\ hpc'[h] = "idle"
  /\ hresp'[h].route = "/snipe"
  /\ <<hdata[h], hresp[h], hret[h]>> # <<hdata'[h], hresp'[h], hret'[h]>>

SnipeDone(h) == hpc[h] = "idle" /\ hresp[h].route = "/snipe"

LacksKey(data) == data.kind = "object" /\ MissingKeys(data.obj)

\* C3: add_item on a payload that lacks url or lacks type returns False and
\* leaves both groups and the notification flag as they were.
C3_InvalidPayloadRejected ==
  [][\A h \in Handlers :
       (SnipeAnsweredAtOnce(h) /\ ~Falsy(hdata'[h]) /\ LacksKey(hdata'[h]))
         => /\ hret'[h] = "False"
            /\ UNCHANGED <<videos, subs, event, woken>>]_vars

\* C3 witness: payloads without type and without url were rejected, the
\* store is empty and the flag unset.
C3_Witness ==
  \E h1, h2 \in Handlers : \E u \in URLs :
    /\ hpc[h1] = "idle" /\ hdata[h1] = Body(UrlOnly(u)) /\ hret[h1] = "False"
    /\ hpc[h2] = "idle" /\ hdata[h2] = Body(TypeOnly("video")) /\ hret[h2] = "False"
    /\ videos = <<>> /\ subs = <<>> /\ ~event

IsError(r) == r.code = 400 /\ r.status = "error"
IsReceived(r) == r.code = 200 /\ r.status = "received"
IsDuplicateOrInvalid(r) == r.code = 200 /\ r.status = "duplicate_or_invalid"

\* The three outcomes of POST /snipe, with `absent(data)` the condition
\* under which the error is answered.
SnipeOutcome(h, absent) ==
  /\ IsError(hresp[h]) \/ IsReceived(hresp[h]) \/ IsDuplicateOrInvalid(hresp[h])
  /\ IsError(hresp[h]) <=> absent
  /\ IsError(hresp[h]) => hret[h] = "none"
  /\ IsReceived(hresp[h]) <=> (hadded[h] /\ hret[h] = "True")
  /\ IsDuplicateOrInvalid(hresp[h]) <=> (~absent /\ ~hadded[h])

NoDataLeavesStore(h) ==
  (SnipeAnsweredAtOnce(h) /\ IsError(hresp'[h]))
    => UNCHANGED <<videos, subs, event, woken>>

\* C4 as stated: 400/error exactly when the body is absent; 200/received
\* exactly when add_item inserted; 200/duplicate_or_invalid otherwise.
C4_AsStated ==
  \A h \in Handlers : SnipeDone(h) => SnipeOutcome(h, hdata[h].kind = "None")

\* C4 (amended): POST /snipe answers 400/error exactly when the body is
\* absent or falsy (the empty object), without calling add_item or touching
\* the store; 200/received exactly when add_item inserted a new item;
\* 200/duplicate_or_invalid in every other case.
C4_SnipeOutcomes ==
  /\ [](\A h \in Handlers : SnipeDone(h) => SnipeOutcome(h, Falsy(hdata[h])))
  /\ [][\A h \in Handlers : NoDataLeavesStore(h)]_vars

\* C4 witness: an empty object was answered 400/error and an inserting
\* request was answered 200/received.
C4_Witness ==
  \E h1, h2 \in Handlers :
    /\ SnipeDone(h1) /\ hdata[h1] = Body(EmptyObj) /\ IsError(hresp[h1])
    /\ SnipeDone(h2) /\ hadded[h2] /\ IsReceived(hresp[h2])
    /\ Len(videos) = 1

WellFormedStore ==
  /\ \A i \in 1..Len(videos) :
       videos[i].url \in URLs /\ videos[i].media_type \in VIDEO_TYPES
  /\ \A i \in 1..Len(subs) :
       subs[i].url \in URLs /\ subs[i].media_type = "sub"

\* C5 as stated: a /snipe body missing url or type gets an explicit error
\* response and never enters the store.
C5_AsStated ==
  \A h \in Handlers :
    (SnipeDone(h) /\ LacksKey(hdata[h])) => (IsError(hresp[h]) /\ ~hadded[h])

\* C5 (amended): a /snipe body missing url or type never enters the store;
\* it is answered 400/error only when the object is empty and otherwise
\* 200/duplicate_or_invalid, the answer a duplicate gets.
C5_InvalidSnipe ==
  /\ [](/\ WellFormedStore
        /\ \A h \in Handlers :
             (SnipeDone(h) /\ LacksKey(hdata[h]))
               => /\ ~hadded[h]
                  /\ hret[h] # "True"
                  /\ IF hdata[h].obj = EmptyObj
                     THEN IsError(hresp[h])
                     ELSE IsDuplicateOrInvalid(hresp[h]))
  /\ [][\A h \in Handlers :
          (SnipeAnsweredAtOnce(h) /\ LacksKey(hdata'[h]))
            => UNCHANGED <<videos, subs>>]_vars

\* C5 witness: a body with a url and no type was answered
\* 200/duplicate_or_invalid and the store holds nothing.
C5_Witness ==
  \E h \in Handlers : \E u \in URLs :
    /\ SnipeDone(h)
    /\ hdata[h] = Body(UrlOnly(u))
    /\ IsDuplicateOrInvalid(hresp[h])
    /\ videos = <<>> /\ subs = <<>>

(***************************************************************************)
(* Claims about retention.                                                 *)
(***************************************************************************)

\* The URLs successfully inserted so far are 1..Inserted, in this order.
Inserted == IF hpc[Driver] = "acquire" THEN nextUrl - 2 ELSE nextUrl - 1

\* The number of prunings that n insertions into one group cause.
Prunings(n) == IF n <= 2000 THEN 0 ELSE ((n - 2001) \div 200) + 1

\* The list holds exactly the insertions first..last, oldest first.
HoldsRange(list, first, last) ==
  /\ Len(list) = last - first + 1
  /\ \A i \in 1..Len(list) : list[i].url = first + i - 1

Group == IF subs # <<>> THEN subs ELSE videos

\* C2: the add_item call that brings a group to 2,001 items removes, under
\* the same lock, exactly the 200 oldest items; no status read sees a group
\* above 2,000; the items kept are the most recently inserted ones in
\* insertion order; 2,200 distinct inserts leave 2,000 items, the first 200
\* inserted being the ones absent.
C2_Retention ==
  /\ Len(videos) <= 2001 /\ Len(subs) <= 2001
  /\ lock = NoThread
       => /\ Len(videos) <= 2000 /\ Len(subs) <= 2000
          /\ HoldsRange(Group, 200 * Prunings(Inserted) + 1, Inserted)
  /\ \A h \in Handlers :
       hresp[h].route = "/status"
         => hresp[h].body.video_count <= 2000 /\ hresp[h].body.sub_count <= 2000
  /\ (hpc[Driver] = "prune" /\ Len(Group) = 2001)
       => HoldsRange(Group, Inserted - 2000, Inserted)
  /\ (hpc[Driver] = "set" /\ Inserted = 2001)
       => HoldsRange(Group, 201, 2001)
  /\ (Inserted = 2200 /\ lock = NoThread)
       => Len(Group) = 2000 /\ Group[1].url = 201 /\ Group[2000].url = 2200

\* C2 witness: the 2,001st video item was inserted, the group was pruned
\* to the insertions 201..2,001, and a status read reported 1,801 items.
C2_Witness ==
  /\ Inserted = 2001
  /\ hpc[Driver] = "idle"
  /\ IsReceived(hresp[Driver])
  /\ Len(videos) = 1801
  /\ videos[1].url = 201
  /\ videos[1801].url = 2001
  /\ \E h \in Handlers :
       hresp[h].route = "/status" /\ hresp[h].body.video_count = 1801

(***************************************************************************)
(* Claims about wait_for_item and the stream handler.                      *)
(***************************************************************************)

\* w's wait_for_item call gets True / False from Event.wait in this step.
WaitGivesTrue(w) == wpc[w] \in {"wait", "blocked"} /\ wpc'[w] = "clear"
WaitGivesFalse(w) == wpc[w] = "blocked" /\ wpc'[w] = "ret"

\* C6 as stated: wait_for_item returns True exactly when the flag was set
\* before the timeout; after a True return the same consumer's next wait
\* returns False if no add_item succeeded in between, and True if one did.
C6_AsStated ==
  [][\A w \in Waiters :
       /\ WaitGivesTrue(w) => (event \/ w \in woken)
       /\ WaitGivesFalse(w) => (~event /\ w \notin woken)
       /\ (WaitGivesTrue(w) /\ wflag[w]) => w \in wadds
       /\ (WaitGivesFalse(w) /\ wflag[w]) => w \notin wadds]_vars

\* C7 as stated: every inserted item is eventually in a snapshot that the
\* engine reads after a True wake.
C7_AsStated ==
  \A u \in URLs : HasUrl(videos, u) ~> HasUrl(snapshot.videos, u)

\* One round of event_stream(): after the wait exactly one event, holding
\* the sizes of both groups as they are when it is emitted, then the pause,
\* then the next wait.
StreamRound(s) ==
  /\ (wpc[s] = "ret" /\ wpc'[s] # "ret")
       => /\ wpc'[s] = "sleep"
          /\ sevent'[s] = [video_count |-> Len(videos), sub_count |-> Len(subs)]
  /\ (wpc[s] = "sleep" /\ wpc'[s] # "sleep") => wpc'[s] = "wait"
  /\ (wpc[s] \in {"wait", "blocked", "clear"} /\ wpc'[s] # wpc[s])
       => wpc'[s] \in {"blocked", "clear", "ret"}
  /\ sevent'[s] # sevent[s] => wpc[s] = "ret"

\* C9: a /stream handler never ends on its own and emits exactly one status
\* event after each wait, ended by a notification or by the timeout alike,
\* so events keep coming with zero captures; each event holds the group
\* sizes current when it is emitted.
C9_StreamKeepsEmitting ==
  /\ [][\A s \in Streams : StreamRound(s)]_vars
  /\ \A s \in Streams : []<>(wpc[s] = "sleep")

\* C9 witness: with nothing captured, a wait ended by the timeout was
\* followed by an event reporting two empty groups.
C9_Witness ==
  \E s \in Streams :
    /\ wpc[s] = "sleep"
    /\ ~wflag[s]
    /\ videos = <<>> /\ subs = <<>>
    /\ sevent[s] = [video_count |-> 0, sub_count |-> 0]

(***************************************************************************)
(* Claims about snapshot order and the disclaimer gate.                    *)
(***************************************************************************)
TimestampOrdered(list) ==
  \A i \in 1..Len(list) : \A j \in 1..Len(list) :
    i <= j => list[i].timestamp <= list[j].timestamp

\* C8 as stated: every snapshot holds each group's items in non-decreasing
\* timestamp order, also when add_item calls run concurrently.
C8_AsStated ==
  TimestampOrdered(snapshot.videos) /\ TimestampOrdered(snapshot.subs)

\* What a run may do only once the disclaimer is accepted.
AfterAcceptance ==
  {"server_started", "dir_resolved", "extractor_scan", "network_call",
   "downloader_constructed", "engine_constructed"}

Declined == "disclaimer_shown" \in fx /\ "accepted" \notin fx

\* C10: a run on which the disclaimer is declined exits with status 0 and
\* has started no server, resolved no download directory, made no
\* extraction or network call and built no downloader or engine; on every
\* run these happen only after the disclaimer was accepted.
C10_DisclaimerGate ==
  /\ Declined => (mpc = "exited" /\ exit_status = Given(0) /\ fx \cap AfterAcceptance = {})
  /\ fx \cap AfterAcceptance # {} => "accepted" \in fx
  /\ mpc \notin {"parsed", "gate", "exited"} => "accepted" \in fx

\* C10 witness: a run given --port that was declined at the gate and has exited.
C10_Witness ==
  /\ Declined
  /\ mpc = "exited"
  /\ "configure_server" \in fx
  /\ args.url # <<>>

(***************************************************************************)
(* Claims about the file helpers.                                          *)
(***************************************************************************)

\* C20 as stated: sanitize_filename is idempotent, its output holds none of
\* the characters < > : " / \ | ? * and is at most 50 characters long.
C20_AsStated ==
  /\ rpc \in {"sanitized", "sanitized_twice"} =>
       /\ \A i \in 1..Len(job.cleaned) : job.cleaned[i] \notin IllegalChars
       /\ Len(job.cleaned) <= 50
  /\ rpc = "sanitized_twice" => job.again = job.cleaned

\* The files the claim calls qualifying: larger than 1 KiB, none of the
\* excluded suffixes, no ".part" in the name.
C19_Qualifying(p) ==
  /\ files[p].size > 1024
  /\ p[Len(p)] \notin {"json", "srt", "vtt", "part", "ytdl"}
  /\ \A i \in 2..Len(p) : p[i] # "part"
C19_Matches == {p \in DOMAIN files : Len(p) >= 2 /\ p[1] = "base"}
C19_Mains ==
  {p \in C19_Matches : C19_Qualifying(p) /\ \A i \in 2..(Len(p) - 1) : p[i] # "audio"}
C19_Audios == {p \in C19_Matches : Len(p) >= 3 /\ p[2] = "audio" /\ C19_Qualifying(p)}
C19_LargestOf(p, S) == p \in S /\ \A q \in S : files[q].size <= files[p].size

\* C19: detect_files returns as main file the largest qualifying file
\* matching base.* without ".audio." (none if there is none) with that
\* file's suffix as extension; as orphan audio the largest qualifying
\* base.audio.* file or, if there is none and a main file exists, the
\* largest other qualifying file; the two are never the same file.
C19_DetectFiles ==
  rpc = "detected" =>
    /\ IF C19_Mains = {} THEN job.found = NoPath
       ELSE C19_LargestOf(job.found, C19_Mains) /\ job.ext = job.found[Len(job.found)]
    /\ IF C19_Audios # {} THEN C19_LargestOf(job.orphan, C19_Audios)
       ELSE LET others == {p \in C19_Matches : C19_Qualifying(p) /\ p # job.found} IN
              IF job.found # NoPath /\ others # {}
              THEN C19_LargestOf(job.orphan, others)
              ELSE job.orphan = NoPath
    /\ job.found # NoPath => job.found # job.orphan

\* C19 witness: no explicit audio file, a main file and a smaller second
\* file that is taken as the orphan audio, next to a partial download.
C19_Witness ==
  /\ rpc = "detected"
  /\ job.found = <<"base", "mp4">>
  /\ job.orphan = <<"base", "m4a">>
  /\ <<"base", "mp4", "part">> \in DOMAIN files

(***************************************************************************)
(* Claims about the merger.                                                *)
(***************************************************************************)

\* The file at p is as it was when the merge was called.
C17_Untouched(p) ==
  Exists(job.dir, p) => (Exists(files, p) /\ files[p] = job.dir[p])

\* C17: when a merge fails (ffmpeg exits non-zero, or the working output is
\* missing or empty, or the run raises) or is aborted because no video file
\* was found, the original video, the orphan audio and any file at the
\* final name <base>.<output_ext> are neither deleted nor renamed.
C17_FailedMergeKeepsFiles ==
  rpc \in {"m_abort", "m_error", "m_failed", "m_done"} =>
    /\ C17_Untouched(job.video_file)
    /\ C17_Untouched(<<"base", job.video_ext>>)
    /\ C17_Untouched(job.audio_arg)
    /\ C17_Untouched(<<"base", "mp4">>)
    /\ C17_Untouched(<<"base", "mkv">>)

\* C17 witness: ffmpeg exited non-zero after writing a working output, with
\* a video, an orphan audio and a stale file at the final name in place.
C17_Witness ==
  /\ rpc = "m_done"
  /\ job.rc = 1
  /\ Exists(files, job.output_file)
  /\ job.video_file = <<"base", "mp4">>
  /\ job.audio_file = <<"base", "audio", "m4a">>
  /\ job.final_path = <<"base", "mkv">>
  /\ Exists(job.dir, job.final_path)

C18_Gone(p) == Exists(files, p) /\ ~Exists(files', p)

C18_Ext == IF job.mode = "embed_mkv" THEN "mkv" ELSE "mp4"
C18_Final == <<"base", C18_Ext>>
C18_Working == <<"base_final", C18_Ext>>

\* The cleanup order, read off the directory: a file goes only after the
\* files that the claim puts before it have gone.
C18_Order ==
  /\ (C18_Gone(job.audio_file) /\ job.audio_file # job.video_file)
       => ~Exists(files, job.video_file)
  /\ (rpc # "m_run" /\ C18_Gone(C18_Final) /\ C18_Final \notin {job.video_file, job.audio_file})
       => (~Exists(files, job.video_file) /\ ~Exists(files, job.audio_file))
  /\ (rpc # "m_run" /\ C18_Gone(C18_Working))
       => /\ ~Exists(files, job.video_file)
          /\ ~Exists(files, job.audio_file)
          /\ ~Exists(files, C18_Final)
          /\ Exists(files', C18_Final) /\ files'[C18_Final] = files[C18_Working]
  /\ C18_Gone(job.final_sub)
       => (~Exists(files, C18_Working) /\ Exists(files, C18_Final))

C13_AsStated ==
  /\ job.strategy # "none" => (job.strategy = "split" <=> SplitStrategy(job))
  /\ (job.strategy = "split" /\ rpc \notin {"d_strategy", "d_audio"} /\ job.success)
       => (job.success_video /\ job.success_audio)
  /\ job.detected
       => /\ job.success
          /\ job.strategy = "split" => (job.success_video /\ job.success_audio)

\* C14: download_stream always returns a boolean, true exactly when the job
\* succeeded, and no exception leaves it, whatever the target's page is
\* and whatever the passes and the detection did.
C14_AsStated ==
  /\ rpc # "d_raised"
  /\ rpc = "d_returned" => job.result \in {"True", "False"}
  /\ rpc = "d_returned" => (job.result = "True" <=> job.success)

\* C15: after a successful download with a main file detected, the merger
\* is invoked if and only if an external subtitle was requested, an orphan
\* audio file was detected, or the detected extension differs from the
\* container the embed mode implies.
C15_AsStated ==
  (rpc = "d_returned" /\ job.success /\ job.detected /\ job.found # NoPath)
    => (job.merger <=> (job.sub = "external" \/ job.orphan # NoPath \/ job.ext # RequestedExt(job.embed_mode)))

(***************************************************************************)
(* Claims about VantaEngine.run.                                           *)
(***************************************************************************)

\* C11: on every path by which run ends after analyze_and_select created a
\* temporary cookie file (download success or failure, operator cancel, an
\* exception inside analysis/selection or inside the download), the cookie
\* file no longer exists when run returns.
C11_AsStated ==
  (rpc = "r_returned" /\ job.cookie # NoPath) => ~Exists(files, job.cookie)

\* C12: when extraction fails and the operator declines the raw attempt,
\* no download is attempted and the engine goes back to waiting for a
\* capture instead of ending the session; when the operator accepts, the
\* download proceeds with force mode set, embed mode raw and no quality
\* menu.
C12_AsStated ==
  /\ job.declined => (~job.downloaded /\ rpc \in {"r_dispatch", "r_finally", "r_start"})
  /\ (job.raw /\ rpc # "r_dispatch")
       => (job.downloaded /\ job.force_mode /\ job.embed_mode = "raw" /\ ~job.menu)

\* C16: when the operator has selected a capture and its download
\* succeeded, run reaches the report prompt before it returns; and a report
\* is written only if the download succeeded and the operator accepted the
\* prompt.
C16_AsStated ==
  /\ (rpc = "r_returned" /\ job.downloaded /\ job.success) => job.prompt
  /\ job.report => (job.success /\ job.prompt)

(***************************************************************************)
(* Claims about the format selector.                                       *)
(***************************************************************************)

\* C21: the menu select_video_format builds is ordered by descending
\* (height, bitrate, filesize), holds at most one candidate per resolution
\* label, the highest-ranked one, is made of candidates of the input, and
\* the input list is left as it was.
C21_AsStated ==
  rpc \in {"s_menu", "s_none", "s_done"} =>
    /\ \A i, j \in 1..Len(job.menu) : i < j => ~KeyLess(job.menu[i], job.menu[j])
    /\ \A i, j \in 1..Len(job.menu) : i # j => ResStr(job.menu[i]) # ResStr(job.menu[j])
    /\ \A k \in 1..Len(job.formats) :
         IsVideoFormat(job.formats[k]) =>
           \E i \in 1..Len(job.menu) :
             /\ ResStr(job.menu[i]) = ResStr(job.formats[k])
             /\ ~KeyLess(job.menu[i], job.formats[k])
    /\ \A i \in 1..Len(job.menu) : \E k \in 1..Len(job.formats) : job.formats[k] = job.menu[i]
    /\ job.formats = job.input

(***************************************************************************)
(* Claims about playlists.                                                 *)
(***************************************************************************)

\* C22: process_playlist_selection returns the full list for a confirmed
\* `all` (force_best true if audio-only, otherwise exactly when forced-best
\* was chosen), an empty list and false for an unconfirmed `all`, the one
\* entry and false for an in-range 1-based index, and an empty list and
\* false for an out-of-range index or any other input.
C22_AsStated ==
  /\ rpc # "p_raised"
  /\ rpc = "p_returned" =>
       IF IsAll(job.choice) /\ job.confirmed
         THEN /\ job.selected = job.entries
              /\ job.force_best = (job.audio_only \/ job.mode = "1")
         ELSE IF ~IsAll(job.choice) /\ job.choice.isdigit /\ job.choice.int \in 1..Len(job.entries)
           THEN job.selected = <<job.entries[job.choice.int]>> /\ ~job.force_best
           ELSE job.selected = <<>> /\ ~job.force_best

\* The indices up to n whose entry has a URL, in playlist order.
RECURSIVE C28_WithUrl(_)
C28_WithUrl(n) ==
  IF n = 0 THEN <<>>
  ELSE IF VideoUrlAvailable(job.entries[n], job.is_youtube_playlist)
    THEN Append(C28_WithUrl(n - 1), n) ELSE C28_WithUrl(n - 1)

\* C28: in bulk mode every entry for which a URL is available is processed
\* exactly once, in playlist order, and an exception raised while
\* processing one entry does not keep any later entry from being processed.
C28_BulkProcessesAll ==
  /\ rpc = "b_loop" => job.processed = C28_WithUrl(job.idx - 1)
  /\ rpc = "b_done" => job.processed = C28_WithUrl(Len(job.entries))

\* C28 witness: the first entry raised, the second had no URL and the third
\* was processed all the same.
C28_Witness ==
  /\ rpc = "b_done"
  /\ Len(job.entries) = 3
  /\ 1 \in job.errors
  /\ ~VideoUrlAvailable(job.entries[2], job.is_youtube_playlist)
  /\ job.processed = <<1, 3>>

(***************************************************************************)
(* Claims about the capture server's address.                              *)
(***************************************************************************)

\* C23: when the operator overrides host or port, the capture server the
\* engine starts listens on that host and port, and that is the address
\* the engine shows to the operator and sends its clear request to.
C23_AsStated ==
  (rpc \in {"v_waiting", "v_cleared"} /\ (TruthyInt(job.port) \/ TruthyStr(job.host))) =>
    /\ job.listen = <<ConfigureAddress(Address(DEFAULT_HOST, DEFAULT_PORT), job.host, job.port)>>
    /\ job.shown = job.listen
    /\ rpc = "v_cleared" => job.clear = job.listen

(***************************************************************************)
(* Claims about the download directory.                                    *)
(***************************************************************************)

\* A candidate that can be created and verified in the file system met.
C24_Usable(p) == job.initial[p] \in {"creatable", "writable"}

C24_Waterfall ==
  (IF job.android THEN <<"android_app">> ELSE <<>>)
    \o <<"downloads_app", "home_app", "temp_app", "temp">>

\* C24: resolve_download_directory returns the first candidate of the
\* waterfall that could be created and verified, and the path it returns
\* exists, is a directory and is writable when it is returned.
C24_AsStated ==
  rpc = "x_returned" =>
    /\ job.fs[job.result] = "writable"
    /\ \E i \in 1..Len(C24_Waterfall) :
         /\ C24_Waterfall[i] = job.result
         /\ \A k \in 1..(i - 1) :
              \/ ~C24_Usable(C24_Waterfall[k])
              \/ C24_Waterfall[k] = "downloads_app" /\ job.initial["downloads"] = "denied"

(***************************************************************************)
(* Claims about capture waiting.                                           *)
(***************************************************************************)

\* C25: while the engine is in capture waiting with remote-log surfacing
\* off, every growth of the number of visible items beyond the number in
\* the table last rendered is eventually followed by a re-render, also
\* with /stream handlers waiting on and clearing the same notification.
C25_AsStated ==
  (rpc = "w_loop" /\ ~enable_console /\ Len(ValidVideos(videos)) > Len(job.valid_videos))
    ~> (rpc = "w_render")

\* C26: after `r` is entered while the store holds a visible item, the
\* engine eventually renders the table again from the store, without a
\* further capture having to arrive.
C26_AsStated ==
  (rpc = "w_loop" /\ job.choice.text = "r" /\ Len(ValidVideos(videos)) >= 1)
    ~> (rpc = "w_render")


\* C29: the table lists the non-log items of the video group as the
\* snapshot read for the render holds them, in order, so a remote-log item
\* is never listed and never shifts the numbering; the target returned is
\* the item at the typed 1-based position of that list, and an index out
\* of its range never selects.
C29_SelectedFromTable ==
  [][/\ (rpc = "w_render" /\ rpc' = "w_prompt") =>
          /\ job'.valid_videos = ValidVideos(videos)
          /\ \A i \in 1..Len(job'.valid_videos) :
               job'.valid_videos[i].source # "REMOTE_LOG"
     /\ (rpc = "w_prompt" /\ rpc' = "w_selected") =>
          /\ job'.valid_videos = job.valid_videos
          /\ job'.choice.isdigit
          /\ job'.choice.int \in 1..Len(job.valid_videos)
          /\ job'.selected = <<job.valid_videos[job'.choice.int]>>
          /\ job'.selected[1].source # "REMOTE_LOG"]_vars

\* A remote-log item precedes the captured video in the store, and the
\* operator's 1 returned the video.
C29_Witness ==
  /\ rpc = "w_selected"
  /\ job.choice.int = 1
  /\ Len(videos) = 2
  /\ videos[1].source = "REMOTE_LOG"
  /\ job.selected = <<videos[2]>>


(***************************************************************************)
(* Claims about the merge command and about what a merge can lose.         *)
(***************************************************************************)

\* C27: in every command the merger builds each mapping names an input of
\* the command; input 0 is the video; an audio argument with `.part` in
\* its name or that does not exist is not an input and audio is mapped
\* from input 0; audio is mapped from input 1 exactly when the audio input
\* is passed; the subtitle is input 2 with an audio input and input 1
\* without, and there is no subtitle input or mapping when no subtitle was
\* requested or it could not be fetched.
C27_Command ==
  job.cmd # NoCommand =>
    LET inputs == job.cmd.inputs
        maps == job.cmd.maps
        audio == Len(inputs) >= 2 /\ inputs[2] = job.audio_file /\ job.audio_file # NoPath
        discarded == /\ job.audio_arg # NoPath
                     /\ HasPart(job.audio_arg) \/ ~Exists(job.dir, job.audio_arg)
    IN  /\ \A i \in 1..Len(maps) : maps[i].input \in 0..(Len(inputs) - 1)
        /\ inputs[1] = job.video_file
        /\ maps[1] = Map(0, "v")
        /\ discarded =>
             /\ \A i \in 1..Len(inputs) : inputs[i] # job.audio_arg
             /\ maps[2] = Map(0, "a?")
        /\ maps[2] = Map(IF audio THEN 1 ELSE 0, "a?")
        /\ ~discarded /\ job.audio_arg # NoPath => audio
        /\ IF job.url = "none" \/ ~job.fetched
             THEN /\ Len(maps) = 2
                  /\ Len(inputs) = IF audio THEN 2 ELSE 1
             ELSE /\ Len(maps) = 3
                  /\ Len(inputs) = IF audio THEN 3 ELSE 2
                  /\ maps[3] = Map(IF audio THEN 2 ELSE 1, "0")
                  /\ inputs[maps[3].input + 1] = job.final_sub

\* A merge with a discarded audio argument and a fetched subtitle, which
\* is then the second input.
C27_Witness ==
  /\ rpc = "m_ok"
  /\ job.audio_arg # NoPath
  /\ job.audio_file = NoPath
  /\ job.fetched
  /\ Len(job.cmd.inputs) = 2
  /\ job.cmd.maps[3].input = 1

\* C30: from the call on, nothing of the directory is removed before the
\* video is found, and afterwards at least one of the video, the working
\* output and the final file exists, also when a deletion or the rename
\* fails; the video and the audio argument are removed only in the cleanup
\* that follows exit status 0 and a non-empty working output.
C30_NoMediaLost ==
  [][/\ IF rpc' \in {"m_start", "m_sub", "m_discover", "m_abort"}
          THEN \A p \in DOMAIN job.dir : Exists(files', p)
          ELSE \/ Exists(files', job'.video_file)
               \/ Exists(files', job'.output_file)
               \/ Exists(files', job'.final_path)
     /\ \A p \in {job.video_file, job.audio_arg} :
          Exists(files, p) /\ ~Exists(files', p) =>
            /\ rpc \in {"m_unlink_video", "m_unlink_audio", "m_unlink_final"}
            /\ job.rc = 0
            /\ Exists(files, job.output_file)
            /\ files[job.output_file].size > 0]_vars

\* The rename failed after the video was deleted, with no file at the
\* final name: the working output is what is left.
C30_Witness ==
  /\ rpc = "m_error"
  /\ job.cmd # NoCommand
  /\ job.ffmpeg
  /\ ~Exists(files, job.video_file)
  /\ ~Exists(files, job.final_path)
  /\ Exists(files, job.output_file)

====
